---- MODULE Spec2Model ----
(***************************************************************************)
(* Dynamic instrumentation core of StarryOS: breakpoint probes (kprobe /   *)
(* uprobe), return-probe instances, the BPF map syscall surface,           *)
(* tracepoints with their trace pipe, and perf events.                     *)
(*                                                                         *)
(* The specifications of the module share one initial state:               *)
(*   Spec       probe registration, patching and breakpoint dispatch       *)
(*   SpecRet    return-probe instance stacks under task interleaving       *)
(*   SpecMap    the bpf() map commands and the helper path                 *)
(*   SpecTrace  tracepoint enabling, callbacks, fires and the ring buffer  *)
(*   SpecKperf  a kprobe-backed perf event with an attached program        *)
(*   SpecBpf    a BPF-output perf event, its producer and its poller       *)
(*   SpecPipe   the blocking read of the trace pipe                        *)
(*   SpecLock   map commands of two CPUs under the lock of each map        *)
(*   SpecProg   program loading and the maps a program pins                *)
(*   SpecPage   page permissions of patched pages and of trampolines       *)
(*   SpecSys    the dispatch of bpf() and of perf_event_open               *)
(*   SpecOut    the sample ring of a BPF-output event and its page runs    *)
(*   SpecNest   KPROBE_MANAGER under breakpoint traps that nest on one CPU *)
(*   SpecFb     the fallback stack of return-probe instances (no task)     *)
(*   SpecRd     TracePipeFile::read into a buffer of a given length        *)
(*   SpecOops   panics caught as kernel oops, call after call              *)
(*   SpecSeq    SeqFile::read over an iterator, read after read            *)
(*   SpecWd     the watch descriptors an inotify instance hands out        *)
(* Option<T> is encoded as a set: None is {} and Some(x) is {x}.           *)
(***************************************************************************)
EXTENDS Integers, Sequences, FiniteSets, TLC

(* ------------------------------ bounds --------------------------------- *)
NumProcs == 2
NumAddrs == 1
MaxProbes == 3
NumTasks == 3
MaxDepth == 2
MaxCalls == 3
NumKeys == 3
NumVals == 2
MaxEntries == 2
NumEvents == 2
MaxCallbacks == 2
PipeCapacity == 2
MaxFires == 3
MaxWrites == 3
MaxFds == 2
MaxInsns == 2
MaxSysCalls == 2
RingCapacity == 2
MaxRuns == 2
MaxNest == 2
MaxRecLen == 2
MaxCatch == 4
MaxItems == 2
MaxShow == 2
MaxOut == 2
\* the width of a watch descriptor (32 in the source), scaled down
WdBits == 3
MaxWatchCalls == 5
\* MAX_OOPS_COUNT of panic.rs (10_000 there), scaled down
MAX_OOPS_COUNT == 2

Procs == 1..NumProcs
\* addresses a probe may be placed at
ProbeAddrs == 1..NumAddrs
\* an address holding a compiled-in breakpoint instruction no probe owns
EbreakAddr == NumAddrs + 1
Addrs == 1..(NumAddrs + 1)
ProbeIds == 1..MaxProbes

None == {}
Some(x) == {x}
Unwrap(o) == CHOOSE x \in o : TRUE

(* ------------------------- instruction bytes --------------------------- *)
BrkInsn == [op |-> "brk", at |-> 0]
OrigInsn(a) == [op |-> "insn", at |-> a]
\* program text before any probe is installed
Text(a) == IF a = EbreakAddr THEN BrkInsn ELSE OrigInsn(a)

NoPoint == [present |-> FALSE, old |-> BrkInsn, pid |-> None]
FreeProbe == [state |-> "free", kind |-> "none", addr |-> 0, owner |-> 0, pid |-> None]
\* the process whose text the uprobes of the model are placed in
TracedPid == CHOOSE p \in Procs : \A q \in Procs : p <= q

VARIABLES
  kmem,               \* kernel text: address -> instruction bytes
  umem,               \* user text of each process: pid -> address -> bytes
  KPROBE_MANAGER,     \* address -> sequence of probe handles (kernel-wide)
  KPROBE_POINT_LIST,  \* address -> probe point (saved bytes) or NoPoint
  uprobe_manager,     \* ProcessData.uprobe_manager of each process
  uprobe_point_list,  \* ProcessData.uprobe_point_list of each process
  probes,             \* handle -> probe record, as returned to the callers
  nextId,             \* the next handle; handles are numbered as registered
  trap                \* the last breakpoint trap and what the handler returned

probeVars == <<kmem, umem, KPROBE_MANAGER, KPROBE_POINT_LIST, uprobe_manager,
               uprobe_point_list, probes, nextId, trap>>

VARIABLES
  procOf,               \* task -> Option<process>: None for a task that is no user thread
  nextTask,             \* the next task id do_clone hands out
  kretprobe_instances,  \* ProcessData.kretprobe_instances of each process
  STATIC_INSTANCE,      \* the static INSTANCE stack of probe_aux.rs
  frames,               \* task -> its live activations of the probed function
  rp,                   \* task -> entries, post-handler runs and matching so far
  lastPop,              \* task -> what its last trampoline trap popped and restored
  panicked,             \* a pop found its stack empty (unwrap on None)
  exited                \* the tasks that have exited

retVars == <<procOf, nextTask, kretprobe_instances, STATIC_INSTANCE, frames, rp, lastPop,
             panicked, exited>>

VARIABLES
  mapData,   \* the entries of the map: key -> Option<value>
  frozen,    \* whether the map was frozen
  lastOp,    \* the last map command and the result its caller got
  walk       \* a user-space walk over the keys with BPF_MAP_GET_NEXT_KEY

mapVars == <<mapData, frozen, lastOp, walk>>

VARIABLES
  tpEnabled,       \* the tracepoint's enabled flag (its static key)
  switch,          \* the last enable / disable request made: "on" or "off"
  raw_callbacks,   \* callback id -> the callback registered under it, if any
  CALLBACK_ID,     \* the static counter of set_bpf_prog
  ebpf_list,       \* perf event -> the callback ids it registered
  evOpen,          \* perf event -> whether it has not been dropped
  registered,      \* the registered callback ids in the order of their registration
  TRACE_RAW_PIPE,  \* the records held by the trace ring buffer, oldest first
  pushed,          \* how many records were pushed so far
  lastFire         \* what the last fire of the tracepoint did

traceVars == <<tpEnabled, switch, raw_callbacks, CALLBACK_ID, ebpf_list, evOpen,
               registered, TRACE_RAW_PIPE, pushed, lastFire>>

VARIABLES
  kpe,       \* the kprobe-backed perf event: its probe, enabled flag, program
  counter,   \* the cell of the counter map the attached program increments
  calls      \* calls of the probed function made with the program attached

kperfVars == <<kpe, counter, calls>>

VARIABLES
  bpe,            \* the BPF-output perf event: enabled flag, whether it was mmapped
  ring,           \* samples in the event's ring buffer not yet consumed
  written,        \* how many write_event calls were made
  poll_ready,     \* whether the poller's waker is registered in the PollSet
  poller,         \* the task polling the event: where it is in its poll
  lastWrite,      \* what the last write_event did
  staleSamples    \* the ring holds samples written while the event was disabled

bpfVars == <<bpe, ring, written, poll_ready, poller, lastWrite, staleSamples>>

VARIABLES
  reader,            \* the task reading tracing/trace_pipe: where it is in read
  child_exit_event   \* whether the reader's waker is registered with the
                     \* child_exit_event of its process

pipeVars == <<reader, child_exit_event>>

VARIABLES
  lastIoctl,   \* the last SET_BPF ioctl on an event that is not kprobe-backed
  progRefs     \* strong references to the BPF program's file

ioctlVars == <<lastIoctl, progRefs>>

VARIABLES
  lmaps,       \* the contents of each map instance
  lockOwner,   \* per lock, the CPU that holds it
  cpu,         \* per CPU, the map command it is carrying out and how far it is
  lad,         \* the last lookup-and-delete carried out
  spin,        \* the last time a CPU found a lock taken
  midSeen      \* whether a command ran on an entry between the lookup and
               \* the delete of a lookup-and-delete by another CPU

lockVars == <<lmaps, lockOwner, cpu, lad, spin, midSeen>>

VARIABLES
  mfd,         \* per map, the number of user file descriptors open on it
  mrefs,       \* per map, the strong count of its Arc<BpfMap>
  mstate,      \* per map: not created, live, or destroyed
  bpfProgs,    \* per program: its state and the raw
               \* map pointers its preprocessor recorded
  lastLoad,    \* the last BPF_PROG_LOAD
  loadPanic    \* the kernel has panicked in BPF_PROG_LOAD

progVars == <<mfd, mrefs, mstate, bpfProgs, lastLoad, loadPanic>>

VARIABLES
  kflags,      \* per kernel page, its mapping flags
  kbytes,      \* per kernel page, what its patched bytes hold
  ktramp,      \* the kernel trampoline page: free, allocated or populated
  umap,        \* per process, the mapping of the page of the shared file:
               \* the frame behind it, the flags of its area and of its
               \* page-table entry
  fbytes,      \* per physical frame, what the patched bytes hold
  utramp,      \* per process, its trampoline page
  patched,     \* the processes a patch has been written into
  lastPatch    \* the last call of set_writeable_for_address

pageVars == <<kflags, kbytes, ktramp, umap, fbytes, utramp, patched, lastPatch>>

VARIABLES
  sysLog,      \* the bpf and perf_event_open calls made so far, with results
  sysPanic     \* the kernel has panicked in one of them

sysVars == <<sysLog, sysPanic>>

VARIABLES
  outEv,       \* the BPF-output event behind the descriptor: open, enabled, phys_addr
  outRing,     \* the samples in its ring pages, oldest first
  nextRun,     \* the next page run alloc_frames hands out
  outFreed,    \* the page runs given back with dealloc_frames
  outMapped,   \* the page runs a user address space maps
  lastOut      \* what the last perf_event_output call met and returned

outVars == <<outEv, outRing, nextRun, outFreed, outMapped, lastOut>>

VARIABLES
  nestProbed,  \* the kernel addresses a kprobe is installed at
  nestStack,   \* the contexts of the CPU, the interrupted ones first
  mgrHolder    \* the position in nestStack of the holder of KPROBE_MANAGER, or 0

nestVars == <<nestProbed, nestStack, mgrHolder>>

VARIABLES
  API_INSERT_INSTANCE,  \* static INSTANCE inside insert_kretprobe_instance_to_task (api)
  API_POP_INSTANCE,     \* static INSTANCE inside pop_kretprobe_instance_from_task (api)
  CORE_INSTANCE,        \* the one static INSTANCE of probe_aux.rs (core)
  fbProc,               \* implementation -> kretprobe_instances of the current process
  fbPending,            \* implementation -> context -> instances pushed and not yet popped
  fbNext,               \* the number of the next instance
  fbLast                \* the last push or pop: where it ran and what it returned

fbVars == <<API_INSERT_INSTANCE, API_POP_INSTANCE, CORE_INSTANCE, fbProc, fbPending, fbNext, fbLast>>

VARIABLES
  rdPipe,      \* the formatted lengths of the records in the trace buffer, oldest first
  rd           \* the read call in progress: position, buffer length, result

rdVars == <<rdPipe, rd>>

VARIABLES
  RECURSION,   \* static RECURSION of the panic handler
  OOPS_COUNT,  \* static OOPS_COUNT
  systemOff,   \* axhal::power::system_off was called
  catchLog     \* the calls made so far: entry point, whether the closure panicked, result

oopsVars == <<RECURSION, OOPS_COUNT, systemOff, catchLog>>

VARIABLES
  sfItems,     \* the items of the iterator, each by the length of its show() output
  sfIndex,     \* the position of the iterator: how many items it has handed out
  sfile,       \* the SeqFile: buf, buf_read_pos, last_file_offset, is_eof
  sfCall,      \* the read in progress: position, output length, bytes written
  sfOut,       \* the bytes the reads have delivered since the file was opened
  sfFetched,   \* item -> how often it was fetched since the last reset (up to 2)
  lastRead     \* the length and the result of the last read that returned

seqVars == <<sfItems, sfIndex, sfile, sfCall, sfOut, sfFetched, lastRead>>

VARIABLES
  next_wd,         \* InotifyInstance.next_wd, an AtomicI32
  wd_to_location,  \* the watch descriptors the instance holds
  watchLog         \* the add_watch calls made so far and what each returned

wdVars == <<next_wd, wd_to_location, watchLog>>

allVars == <<probeVars, retVars, mapVars, traceVars, kperfVars, bpfVars, pipeVars,
             ioctlVars, lockVars, progVars, pageVars, sysVars, outVars, nestVars,
             fbVars, rdVars, oopsVars, seqVars, wdVars>>

\* what an action of one part leaves alone in the other parts
ProbePartOnly ==
  UNCHANGED <<retVars, mapVars, traceVars, kperfVars, bpfVars, pipeVars, ioctlVars,
              lockVars, progVars, pageVars, sysVars, outVars, nestVars, fbVars, rdVars,
              oopsVars, seqVars, wdVars>>
RetPartOnly ==
  UNCHANGED <<probeVars, mapVars, traceVars, kperfVars, bpfVars, pipeVars, ioctlVars,
              lockVars, progVars, pageVars, sysVars, outVars, nestVars, fbVars, rdVars,
              oopsVars, seqVars, wdVars>>
MapPartOnly ==
  UNCHANGED <<probeVars, retVars, traceVars, kperfVars, bpfVars, pipeVars, ioctlVars,
              lockVars, progVars, pageVars, sysVars, outVars, nestVars, fbVars, rdVars,
              oopsVars, seqVars, wdVars>>
TracePartOnly ==
  UNCHANGED <<probeVars, retVars, mapVars, kperfVars, bpfVars, pipeVars, ioctlVars,
              lockVars, progVars, pageVars, sysVars, outVars, nestVars, fbVars, rdVars,
              oopsVars, seqVars, wdVars>>
KperfPartOnly ==
  UNCHANGED <<retVars, mapVars, traceVars, bpfVars, pipeVars, ioctlVars, lockVars,
              progVars, pageVars, sysVars, outVars, nestVars, fbVars, rdVars, oopsVars,
              seqVars, wdVars>>
PipePartOnly ==
  UNCHANGED <<probeVars, retVars, mapVars, kperfVars, bpfVars, ioctlVars, lockVars,
              progVars, pageVars, sysVars, outVars, nestVars, fbVars, rdVars, oopsVars,
              seqVars, wdVars>>
BpfPartOnly ==
  UNCHANGED <<probeVars, retVars, mapVars, traceVars, kperfVars, pipeVars, ioctlVars,
              lockVars, progVars, pageVars, sysVars, outVars, nestVars, fbVars, rdVars,
              oopsVars, seqVars, wdVars>>
IoctlPartOnly ==
  UNCHANGED <<probeVars, retVars, mapVars, traceVars, kperfVars, bpfVars, pipeVars,
              lockVars, progVars, pageVars, sysVars, outVars, nestVars, fbVars, rdVars,
              oopsVars, seqVars, wdVars>>
LockPartOnly ==
  UNCHANGED <<probeVars, retVars, mapVars, traceVars, kperfVars, bpfVars, pipeVars,
              ioctlVars, progVars, pageVars, sysVars, outVars, nestVars, fbVars,
              rdVars, oopsVars, seqVars, wdVars>>
ProgPartOnly ==
  UNCHANGED <<probeVars, retVars, mapVars, traceVars, kperfVars, bpfVars, pipeVars,
              ioctlVars, lockVars, pageVars, sysVars, outVars, nestVars, fbVars,
              rdVars, oopsVars, seqVars, wdVars>>
PagePartOnly ==
  UNCHANGED <<probeVars, retVars, mapVars, traceVars, kperfVars, bpfVars, pipeVars,
              ioctlVars, lockVars, progVars, sysVars, outVars, nestVars, fbVars,
              rdVars, oopsVars, seqVars, wdVars>>
SysPartOnly ==
  UNCHANGED <<probeVars, retVars, mapVars, traceVars, kperfVars, bpfVars, pipeVars,
              ioctlVars, lockVars, progVars, pageVars, outVars, nestVars, fbVars,
              rdVars, oopsVars, seqVars, wdVars>>

NoTrap == [mode |-> "none", pid |-> 0, addr |-> 0, found |-> FALSE,
           fired |-> <<>>, handled |-> FALSE, skipped |-> FALSE]

EmptyManager == [a \in Addrs |-> <<>>]
EmptyPointList == [a \in Addrs |-> NoPoint]

InitProbe ==
  /\ kmem = [a \in Addrs |-> Text(a)]
  /\ umem = [p \in Procs |-> [a \in Addrs |-> Text(a)]]
  /\ KPROBE_MANAGER = EmptyManager
  /\ KPROBE_POINT_LIST = EmptyPointList
  /\ uprobe_manager = [p \in Procs |-> EmptyManager]
  /\ uprobe_point_list = [p \in Procs |-> EmptyPointList]
  /\ probes = [i \in ProbeIds |-> FreeProbe]
  /\ nextId = 1
  /\ trap = NoTrap

(* ----------------------- KprobeAuxiliaryOps ---------------------------- *)
\* a memory image is the pair of kernel text and the user texts
Mem(k, u) == [k |-> k, u |-> u]

\* copy_memory: reads the bytes through the target's page table when a pid
\* is given, and directly otherwise
copy_memory(m, src, user_pid) ==
  IF user_pid # None THEN m.u[Unwrap(user_pid)][src] ELSE m.k[src]

\* set_writeable_for_address: runs the write action on the kernel text, or
\* on the target process's page when a pid is given
set_writeable_for_address(m, address, user_pid, bytes) ==
  IF user_pid # None
    THEN Mem(m.k, [m.u EXCEPT ![Unwrap(user_pid)][address] = bytes])
    ELSE Mem([m.k EXCEPT ![address] = bytes], m.u)

(* --------------- probe library: manager and point list ----------------- *)
RemoveId(s, id) == SelectSeq(s, LAMBDA x : x # id)

\* the manager keeps the probes of an address in insertion order
InsertProbe(list, id) == Append(list, id)

\* install: reuse the point of the address when the list holds one, otherwise
\* save the current bytes and write the breakpoint
LibRegister(manager, plist, m, addr, user_pid, id) ==
  LET existed == plist[addr].present
      saved == copy_memory(m, addr, user_pid)
      point == [present |-> TRUE, old |-> saved, pid |-> user_pid]
  IN [manager |-> [manager EXCEPT ![addr] = InsertProbe(@, id)],
      plist |-> IF existed THEN plist ELSE [plist EXCEPT ![addr] = point],
      mem |-> IF existed THEN m
              ELSE set_writeable_for_address(m, addr, user_pid, BrkInsn)]

\* remove the probe; when no probe is left at the address the point is
\* freed, which writes the saved bytes back
LibUnregister(manager, plist, m, addr, id) ==
  LET left == RemoveId(manager[addr], id)
      point == plist[addr]
      last == left = <<>> /\ point.present
  IN [manager |-> [manager EXCEPT ![addr] = left],
      plist |-> IF last THEN [plist EXCEPT ![addr] = NoPoint] ELSE plist,
      mem |-> IF last
              THEN set_writeable_for_address(m, addr, point.pid, point.old)
              ELSE m]

\* handler_from_break: Some(()) with the pre-handlers run in list order when
\* the manager has probes at the trap address, None otherwise
LibHandlerFromBreak(manager, addr) ==
  IF manager[addr] # <<>>
    THEN [res |-> Some("unit"), fired |-> manager[addr]]
    ELSE [res |-> None, fired |-> <<>>]

(* --------------------------- registration ------------------------------ *)

\* register_kprobe: both global registries are locked and passed on
register_kprobe(addr) ==
  /\ nextId \in ProbeIds
  /\ LET id == nextId
         r == LibRegister(KPROBE_MANAGER, KPROBE_POINT_LIST, Mem(kmem, umem),
                          addr, None, id)
     IN /\ KPROBE_MANAGER' = r.manager
        /\ KPROBE_POINT_LIST' = r.plist
        /\ kmem' = r.mem.k
        /\ umem' = r.mem.u
        /\ probes' = [probes EXCEPT ![id] =
                        [state |-> "registered", kind |-> "k", addr |-> addr,
                         owner |-> 0, pid |-> None]]
        /\ nextId' = nextId + 1
  /\ trap' = NoTrap
  /\ ProbePartOnly
  /\ UNCHANGED <<uprobe_manager, uprobe_point_list>>

\* unregister_kprobe
unregister_kprobe(id) ==
  /\ probes[id].state = "registered"
  /\ probes[id].kind = "k"
  /\ LET r == LibUnregister(KPROBE_MANAGER, KPROBE_POINT_LIST, Mem(kmem, umem),
                            probes[id].addr, id)
     IN /\ KPROBE_MANAGER' = r.manager
        /\ KPROBE_POINT_LIST' = r.plist
        /\ kmem' = r.mem.k
        /\ umem' = r.mem.u
  /\ probes' = [probes EXCEPT ![id].state = "unregistered"]
  /\ UNCHANGED nextId
  /\ trap' = NoTrap
  /\ ProbePartOnly
  /\ UNCHANGED <<uprobe_manager, uprobe_point_list>>

\* the registries register_uprobe and unregister_uprobe work on: those of
\* the calling process
UprobeRegistryOf(current, target) == current

\* register_uprobe, called by process `current` for a probe whose builder
\* carries user_mode = target (perf_event_open_uprobe)
register_uprobe(current, target, addr) ==
  /\ nextId \in ProbeIds
  /\ LET id == nextId
         reg == UprobeRegistryOf(current, target)
         r == LibRegister(uprobe_manager[reg], uprobe_point_list[reg],
                          Mem(kmem, umem), addr, Some(target), id)
     IN /\ uprobe_manager' = [uprobe_manager EXCEPT ![reg] = r.manager]
        /\ uprobe_point_list' = [uprobe_point_list EXCEPT ![reg] = r.plist]
        /\ kmem' = r.mem.k
        /\ umem' = r.mem.u
        /\ probes' = [probes EXCEPT ![id] =
                        [state |-> "registered", kind |-> "u", addr |-> addr,
                         owner |-> current, pid |-> Some(target)]]
        /\ nextId' = nextId + 1
  /\ trap' = NoTrap
  /\ ProbePartOnly
  /\ UNCHANGED <<KPROBE_MANAGER, KPROBE_POINT_LIST>>

\* unregister_uprobe, called by the process that registered the probe
unregister_uprobe(id) ==
  /\ probes[id].state = "registered"
  /\ probes[id].kind = "u"
  /\ LET reg == UprobeRegistryOf(probes[id].owner, Unwrap(probes[id].pid))
         r == LibUnregister(uprobe_manager[reg], uprobe_point_list[reg],
                            Mem(kmem, umem), probes[id].addr, id)
     IN /\ uprobe_manager' = [uprobe_manager EXCEPT ![reg] = r.manager]
        /\ uprobe_point_list' = [uprobe_point_list EXCEPT ![reg] = r.plist]
        /\ kmem' = r.mem.k
        /\ umem' = r.mem.u
  /\ probes' = [probes EXCEPT ![id].state = "unregistered"]
  /\ UNCHANGED nextId
  /\ trap' = NoTrap
  /\ ProbePartOnly
  /\ UNCHANGED <<KPROBE_MANAGER, KPROBE_POINT_LIST>>

(* ----------------------------- dispatch -------------------------------- *)
Reverse(s) == [i \in 1..Len(s) |-> s[Len(s) + 1 - i]]

\* a mutation of run_all_kprobe: the probes of the address run last to first
run_all_kprobe_reversed(addr) ==
  LET d == LibHandlerFromBreak(KPROBE_MANAGER, addr)
  IN [res |-> d.res, fired |-> Reverse(d.fired)]

\* run_all_kprobe: dispatch over the global manager
run_all_kprobe(addr) == LibHandlerFromBreak(KPROBE_MANAGER, addr)

\* break_uprobe_handler: dispatch over the manager of the current process
break_uprobe_handler(current, addr) ==
  LibHandlerFromBreak(uprobe_manager[current], addr)

\* kernel_ebreak_handler / user_ebreak_handler: true when the dispatch
\* returned Some; otherwise the program counter is moved past the breakpoint
\* instruction and true is returned as well
EbreakResult(res) == TRUE

\* a breakpoint instruction executed in kernel mode at addr
kernel_ebreak_handler(addr) ==
  /\ kmem[addr] = BrkInsn
  /\ LET d == run_all_kprobe(addr)
     IN trap' = [mode |-> "kernel", pid |-> 0, addr |-> addr,
                 found |-> d.res # None, fired |-> d.fired,
                 handled |-> EbreakResult(d.res), skipped |-> d.res = None]
  /\ UNCHANGED <<kmem, umem, KPROBE_MANAGER, KPROBE_POINT_LIST, uprobe_manager,
                 uprobe_point_list, probes, nextId>>
  /\ ProbePartOnly

\* a breakpoint instruction executed by user process `current` at addr
user_ebreak_handler(current, addr) ==
  /\ umem[current][addr] = BrkInsn
  /\ LET d == break_uprobe_handler(current, addr)
     IN trap' = [mode |-> "user", pid |-> current, addr |-> addr,
                 found |-> d.res # None, fired |-> d.fired,
                 handled |-> EbreakResult(d.res), skipped |-> d.res = None]
  /\ UNCHANGED <<kmem, umem, KPROBE_MANAGER, KPROBE_POINT_LIST, uprobe_manager,
                 uprobe_point_list, probes, nextId>>
  /\ ProbePartOnly

(* ------------------------- claims C1 .. C4 ----------------------------- *)
Registered(i) == probes[i].state = "registered"
KprobesAt(a) == {i \in ProbeIds : Registered(i) /\ probes[i].kind = "k" /\ probes[i].addr = a}
UprobesAt(p, a) ==
  {i \in ProbeIds : Registered(i) /\ probes[i].kind = "u" /\ probes[i].addr = a
                    /\ probes[i].pid = Some(p)}
IsAscending(s) == \A i, j \in 1..Len(s) : i < j => s[i] < s[j]
Range(s) == {s[i] : i \in 1..Len(s)}

\* the kernel half of C1 and C2: the kernel text is patched exactly while a
\* kprobe is registered, and holds its original bytes otherwise
KprobePatchInvariant ==
  \A a \in ProbeAddrs :
    /\ kmem[a] = BrkInsn <=> KprobesAt(a) # {}
    /\ KprobesAt(a) = {} => kmem[a] = Text(a)

\* C1: in every reachable state the breakpoint patch at an address is applied
\* if and only if at least one probe is currently registered at that address,
\* for kprobes in the kernel text and for uprobes in the text of their target.
C1_PatchIffRegistered ==
  \A a \in ProbeAddrs :
    /\ kmem[a] = BrkInsn <=> KprobesAt(a) # {}
    /\ \A p \in Procs : umem[p][a] = BrkInsn <=> UprobesAt(p, a) # {}

\* C2: a probe point never saves the breakpoint opcode as the original bytes,
\* and once no probe is registered at an address its bytes are those present
\* before the first registration.
C2_BytesRestored ==
  /\ \A a \in ProbeAddrs :
       /\ KPROBE_POINT_LIST[a].present => KPROBE_POINT_LIST[a].old # BrkInsn
       /\ \A p \in Procs :
            uprobe_point_list[p][a].present => uprobe_point_list[p][a].old # BrkInsn
  /\ \A a \in ProbeAddrs :
       /\ KprobesAt(a) = {} => kmem[a] = Text(a)
       /\ \A p \in Procs : UprobesAt(p, a) = {} => umem[p][a] = Text(a)

C4_UnhandledWhenNoPoint ==
  trap.mode # "none" => (trap.handled <=> trap.found)

\* C34: a uprobe opened for the process P stands in the manager that the
\* dispatch of P's breakpoint traps consults, whoever opened it: while it
\* is registered it is in P's manager at its address, and a breakpoint P
\* hits there is found and runs exactly the uprobes registered for P there.
C34_UprobeInManagerOfTarget ==
  /\ \A i \in ProbeIds :
       (Registered(i) /\ probes[i].kind = "u")
         => i \in Range(uprobe_manager[Unwrap(probes[i].pid)][probes[i].addr])
  /\ (trap.mode = "user" /\ UprobesAt(trap.pid, trap.addr) # {})
       => /\ trap.found
          /\ Range(trap.fired) = UprobesAt(trap.pid, trap.addr)

\* the part of C34 that holds: a uprobe stands in the manager of the process
\* that opened it from its registration to its unregistration, and in no
\* other manager
UprobeInManagerOfCaller ==
  \A i \in ProbeIds, p \in Procs :
    (probes[i].kind = "u" /\ i \in Range(uprobe_manager[p][probes[i].addr]))
      <=> (Registered(i) /\ probes[i].kind = "u" /\ probes[i].owner = p)


(* ===================== return-probe instance stacks ==================== *)
Tasks == 1..NumTasks
\* process ids: every task may come to own a process of its own
RProcs == 1..NumTasks
\* the task that exists before any clone and is not a user thread
KernelTask == CHOOSE t \in Tasks : \A u \in Tasks : t <= u
\* the first user thread, of the first process
InitTask == KernelTask + 1

NoPop == [valid |-> FALSE, pc |-> "none", pcTask |-> 0, expect |-> "none",
          expectTask |-> 0, instTask |-> 0, instDepth |-> 0, depth |-> 0]
FreshCount == [calls |-> 0, posts |-> 0, matched |-> TRUE]

InitRet ==
  /\ procOf = [t \in Tasks |-> IF t = InitTask THEN Some(1) ELSE None]
  /\ nextTask = InitTask + 1
  /\ kretprobe_instances = [p \in RProcs |-> <<>>]
  /\ STATIC_INSTANCE = <<>>
  /\ frames = [t \in Tasks |-> <<>>]
  /\ rp = [t \in Tasks |-> FreshCount]
  /\ lastPop = [t \in Tasks |-> NoPop]
  /\ panicked = FALSE
  /\ exited = {}

Created(t) == t < nextTask
Exists(t) == Created(t) /\ t \notin exited
IsThread(t) == procOf[t] # None
UsedProcs == {p \in RProcs : \E t \in Tasks : Created(t) /\ procOf[t] = Some(p)}
NewProc == CHOOSE p \in RProcs \ UsedProcs : \A q \in RProcs \ UsedProcs : p <= q

\* CloneArgs::do_clone: with CLONE_THREAD the new task shares the caller's
\* ProcessData (old_proc_data.clone()); otherwise ProcessData::new
CloneProcData(old, thread) == IF thread THEN old ELSE Some(NewProc)

do_clone(curr, thread) ==
  /\ Exists(curr)
  /\ IsThread(curr)
  /\ nextTask \in Tasks
  /\ procOf' = [procOf EXCEPT ![nextTask] = CloneProcData(procOf[curr], thread)]
  /\ nextTask' = nextTask + 1
  /\ UNCHANGED <<kretprobe_instances, STATIC_INSTANCE, frames, rp, lastPop, panicked,
                 exited>>
  /\ RetPartOnly

\* the stack the current task's instances live on: that of its ProcessData
\* when the task is a user thread, the static INSTANCE otherwise
StackOf(t) == IF IsThread(t) THEN kretprobe_instances[Unwrap(procOf[t])] ELSE STATIC_INSTANCE

\* insert_kretprobe_instance_to_task
insert_kretprobe_instance_to_task(t, instance) ==
  IF IsThread(t)
    THEN /\ kretprobe_instances' =
              [kretprobe_instances EXCEPT ![Unwrap(procOf[t])] = Append(@, instance)]
         /\ UNCHANGED STATIC_INSTANCE
    ELSE /\ STATIC_INSTANCE' = Append(STATIC_INSTANCE, instance)
         /\ UNCHANGED kretprobe_instances

\* pop_kretprobe_instance_from_task: the stack after pop()
pop_kretprobe_instance_from_task(t) ==
  IF IsThread(t)
    THEN /\ kretprobe_instances' =
              [kretprobe_instances EXCEPT ![Unwrap(procOf[t])] = SubSeq(@, 1, Len(@) - 1)]
         /\ UNCHANGED STATIC_INSTANCE
    ELSE /\ STATIC_INSTANCE' = SubSeq(STATIC_INSTANCE, 1, Len(STATIC_INSTANCE) - 1)
         /\ UNCHANGED kretprobe_instances

\* the return address of a call of the probed function: its outermost call
\* returns into the task's own caller, a recursive call into the function
ReturnAddress(t) ==
  IF frames[t] = <<>> THEN [site |-> "caller", task |-> t]
                      ELSE [site |-> "recursive", task |-> 0]

\* task t calls the probed function and its entry breakpoint fires: the
\* return address is read from the registers, an instance is pushed and the
\* return address is replaced by the trampoline
RetprobeEntry(t) ==
  /\ Exists(t)
  /\ ~panicked
  /\ Len(frames[t]) < MaxDepth
  /\ (frames[t] # <<>> => rp[t].calls < MaxCalls)
  /\ LET ra == ReturnAddress(t)
         instance == [ret_addr |-> ra, task |-> t, depth |-> Len(frames[t]) + 1]
     IN /\ insert_kretprobe_instance_to_task(t, instance)
        /\ frames' = [frames EXCEPT ![t] = Append(@, [expect |-> ra, ra |-> "trampoline"])]
        /\ rp' = [rp EXCEPT ![t] =
                    IF frames[t] = <<>>
                      THEN [calls |-> 1, posts |-> 0, matched |-> TRUE]
                      ELSE [@ EXCEPT !.calls = @ + 1]]
  /\ UNCHANGED <<procOf, nextTask, lastPop, panicked, exited>>
  /\ RetPartOnly

\* the innermost activation of task t returns through the trampoline and its
\* breakpoint fires: the most recent instance of the current task's stack is
\* popped, the post-handler runs and the program counter is set to the
\* instance's return address
TrampolineTrap(t) ==
  /\ Exists(t)
  /\ ~panicked
  /\ frames[t] # <<>>
  /\ LET stack == StackOf(t)
         top == frames[t][Len(frames[t])]
     IN IF stack = <<>>
          THEN /\ panicked' = TRUE
               /\ UNCHANGED <<kretprobe_instances, STATIC_INSTANCE, frames, rp, lastPop>>
          ELSE LET inst == stack[Len(stack)]
               IN /\ pop_kretprobe_instance_from_task(t)
                  /\ frames' = [frames EXCEPT ![t] = SubSeq(@, 1, Len(@) - 1)]
                  /\ lastPop' = [lastPop EXCEPT ![t] =
                       [valid |-> TRUE, pc |-> inst.ret_addr.site,
                        pcTask |-> inst.ret_addr.task, expect |-> top.expect.site,
                        expectTask |-> top.expect.task, instTask |-> inst.task,
                        instDepth |-> inst.depth, depth |-> Len(frames[t])]]
                  /\ rp' = [rp EXCEPT ![t] =
                       [calls |-> @.calls, posts |-> @.posts + 1,
                        matched |-> @.matched /\ inst.ret_addr = top.expect
                                    /\ inst.task = t /\ inst.depth = Len(frames[t])]]
                  /\ UNCHANGED panicked
  /\ UNCHANGED <<procOf, nextTask, exited>>
  /\ RetPartOnly

\* the threads that go with t: all live threads of its process for
\* exit_group, t alone for exit
Leaving(t, group_exit) ==
  IF group_exit THEN {u \in Tasks : Exists(u) /\ procOf[u] = procOf[t]} ELSE {t}

\* the pending instances of the exiting tasks are discarded with them
DiscardInstances(stacks, gone) ==
  [p \in RProcs |-> SelectSeq(stacks[p], LAMBDA inst : inst.task \notin gone)]

\* sys_exit and sys_exit_group: do_exit(wait_status, group_exit) ends the
\* calling thread, or every thread of its process; the activations of the
\* probed function it was in never return
do_exit(t, group_exit) ==
  /\ Exists(t)
  /\ IsThread(t)
  /\ ~panicked
  /\ exited' = exited \cup Leaving(t, group_exit)
  /\ frames' = [u \in Tasks |-> IF u \in exited' THEN <<>> ELSE frames[u]]
  /\ kretprobe_instances' = DiscardInstances(kretprobe_instances, exited')
  /\ UNCHANGED <<procOf, nextTask, STATIC_INSTANCE, rp, lastPop, panicked>>
  /\ RetPartOnly

NextRet ==
  \/ \E c \in Tasks, th \in BOOLEAN : do_clone(c, th)
  \/ \E t \in Tasks : RetprobeEntry(t)
  \/ \E t \in Tasks : TrampolineTrap(t)
  \/ \E t \in Tasks, g \in BOOLEAN : do_exit(t, g)

InstancesOf(t) ==
  {i \in 1..Len(StackOf(t)) : StackOf(t)[i].task = t}

\* C5: when a task has unwound a recursion of N entries of the probed
\* function, the post-handler has run exactly N times for it, every
\* trampoline trap popped the instance of the matching entry (innermost
\* first) and restored that entry's return address, no pop found the stack
\* empty, and none of its instances is left behind.
C5_RecursionMatched ==
  /\ ~panicked
  /\ \A t \in Tasks :
       (Exists(t) /\ frames[t] = <<>>) =>
         /\ rp[t].posts = rp[t].calls
         /\ rp[t].matched
         /\ InstancesOf(t) = {}

\* C6: every trampoline trap pops an instance pushed by the same task and
\* restores that task's own original return address, whatever the other
\* tasks (threads of the same process included) did in between.
C6_PerTaskLifo ==
  \A t \in Tasks :
    lastPop[t].valid =>
      /\ lastPop[t].instTask = t
      /\ lastPop[t].pc = lastPop[t].expect
      /\ lastPop[t].pcTask = lastPop[t].expectTask


\* the instances of exited tasks that are still on the stack of a process
LeftBehind ==
  {<<p, i>> \in RProcs \X (1..(MaxDepth * NumTasks)) :
     i <= Len(kretprobe_instances[p]) /\ kretprobe_instances[p][i].task \in exited}

\* C30: the pending instances of a task that exits are discarded with it:
\* no instance of an exited task is on the stack of a process, and no
\* trampoline trap finds its stack empty.
C30_InstancesDiscardedAtExit ==
  /\ LeftBehind = {}
  /\ ~panicked

\* the first half of C30 alone
NoInstanceOfExitedTask == LeftBehind = {}

(* ============================== BPF maps =============================== *)
Keys == 1..NumKeys
Vals == 1..NumVals
UpdateFlags == {"BPF_ANY", "BPF_NOEXIST", "BPF_EXIST"}
\* the variants of kbpf_basic::BpfError, as matched by bpferror_to_axerr
BpfErrors == {"InvalidArgument", "NotFound", "NotSupported", "NoSpace", "TooBig",
              "TryAgain"}

\* a mutation of bpferror_to_axerr: a missing key is reported as invalid input
bpferror_to_axerr_notfound_lost(err) ==
  CASE err = "InvalidArgument" -> "InvalidInput"
    [] err = "NotFound" -> "InvalidInput"
    [] err = "NotSupported" -> "OperationNotSupported"
    [] err = "NoSpace" -> "NoMemory"
    [] err = "TooBig" -> "E2BIG"
    [] err = "TryAgain" -> "EAGAIN"

bpferror_to_axerr(err) ==
  CASE err = "InvalidArgument" -> "InvalidInput"
    [] err = "NotFound" -> "NotFound"
    [] err = "NotSupported" -> "OperationNotSupported"
    [] err = "NoSpace" -> "NoMemory"
    [] err = "TooBig" -> "E2BIG"
    [] err = "TryAgain" -> "EAGAIN"

bpferror_to_axresult(err) == [ok |-> FALSE, err |-> bpferror_to_axerr(err)]

\* a mutation of bpf_map_result: the error of the map operation is dropped
bpf_map_result_swallowed(r) == [ok |-> TRUE, err |-> "none"]

\* bpf(): every map command ends in map_or_else(bpferror_to_axresult, |_| Ok(0))
bpf_map_result(r) ==
  IF r.ok THEN [ok |-> TRUE, err |-> "none"] ELSE bpferror_to_axresult(r.err)

(* ---- the map store behind kbpf_basic::map, modelled from the design ---- *)
LibOk(data, out) == [ok |-> TRUE, err |-> "none", data |-> data, out |-> out]
LibErr(e, data) == [ok |-> FALSE, err |-> e, data |-> data, out |-> None]
Present(data) == {k \in Keys : data[k] # None}

\* update: create-only fails on a present key, update-only on an absent one;
\* BpfError has no variant of its own for "already exists" or for a write to
\* a frozen map, so the variant reported in these cases is the input e
LibUpdateElem(data, isFrozen, fromUser, k, v, flags, e) ==
  IF fromUser /\ isFrozen THEN LibErr(e, data)
  ELSE IF flags = "BPF_NOEXIST" /\ data[k] # None THEN LibErr(e, data)
  ELSE IF flags = "BPF_EXIST" /\ data[k] = None THEN LibErr("NotFound", data)
  ELSE IF data[k] = None /\ Cardinality(Present(data)) >= MaxEntries
    THEN LibErr("NoSpace", data)
  ELSE LibOk([data EXCEPT ![k] = Some(v)], None)

LibLookupElem(data, k) ==
  IF data[k] = None THEN LibErr("NotFound", data) ELSE LibOk(data, data[k])

LibDeleteElem(data, isFrozen, fromUser, k, e) ==
  IF fromUser /\ isFrozen THEN LibErr(e, data)
  ELSE IF data[k] = None THEN LibErr("NotFound", data)
  ELSE LibOk([data EXCEPT ![k] = None], None)

\* get_next_key: the first key for None, else the least key after the given one
LibGetNextKey(data, key) ==
  LET after == IF key = None THEN Present(data)
               ELSE {k \in Present(data) : k > Unwrap(key)}
  IN IF after = {} THEN LibErr("NotFound", data)
     ELSE LibOk(data, Some(CHOOSE k \in after : \A j \in after : k <= j))

(* --------------------------- the commands ------------------------------ *)
NoOp == [cmd |-> "none", fromUser |-> FALSE, key |-> 0, val |-> 0, flags |-> "none",
         before |-> None, wasFrozen |-> FALSE, wasFull |-> FALSE, same |-> TRUE,
         res |-> [ok |-> TRUE, err |-> "none"], out |-> None]
IdleWalk == [state |-> "idle", cursor |-> None, buf |-> None, seen |-> <<>>]

InitMap ==
  /\ mapData = [k \in Keys |-> None]
  /\ frozen = FALSE
  /\ lastOp = NoOp
  /\ walk = IdleWalk

Op(cmd, fromUser, k, v, flags, r, res) ==
  [cmd |-> cmd, fromUser |-> fromUser, key |-> k,
   val |-> IF res.ok THEN v ELSE 0, flags |-> flags,
   before |-> IF k \in Keys THEN mapData[k] ELSE None, wasFrozen |-> frozen,
   wasFull |-> Cardinality(Present(mapData)) >= MaxEntries,
   same |-> r.data = mapData, res |-> res, out |-> IF res.ok THEN r.out ELSE None]

\* the walk recorded is a run of consecutive get_next_key calls: any other
\* command starts the record afresh

\* bpf_cmd::BPF_MAP_UPDATE_ELEM from user space
BPF_MAP_UPDATE_ELEM(k, v, flags, e) ==
  /\ LET r == LibUpdateElem(mapData, frozen, TRUE, k, v, flags, e)
     IN /\ mapData' = r.data
        /\ lastOp' = Op("update", TRUE, k, v, flags, r, bpf_map_result(r))
        /\ walk' = IdleWalk
  /\ UNCHANGED frozen
  /\ MapPartOnly

\* bpf_cmd::BPF_MAP_LOOKUP_ELEM
BPF_MAP_LOOKUP_ELEM(k) ==
  /\ LET r == LibLookupElem(mapData, k)
     IN lastOp' = Op("lookup", TRUE, k, 0, "none", r, bpf_map_result(r))
  /\ walk' = IdleWalk
  /\ UNCHANGED <<mapData, frozen>>
  /\ MapPartOnly

\* bpf_cmd::BPF_MAP_DELETE_ELEM
BPF_MAP_DELETE_ELEM(k, e) ==
  /\ LET r == LibDeleteElem(mapData, frozen, TRUE, k, e)
     IN /\ mapData' = r.data
        /\ lastOp' = Op("delete", TRUE, k, 0, "none", r, bpf_map_result(r))
        /\ walk' = IdleWalk
  /\ UNCHANGED frozen
  /\ MapPartOnly

\* a mutation of BPF_MAP_FREEZE: a second freeze thaws the map
BPF_MAP_FREEZE_toggles ==
  /\ frozen' = ~frozen
  /\ lastOp' = Op("freeze", TRUE, 0, 0, "none", LibOk(mapData, None),
                  bpf_map_result(LibOk(mapData, None)))
  /\ walk' = IdleWalk
  /\ UNCHANGED mapData
  /\ MapPartOnly

\* bpf_cmd::BPF_MAP_FREEZE
BPF_MAP_FREEZE ==
  /\ frozen' = TRUE
  /\ lastOp' = Op("freeze", TRUE, 0, 0, "none", LibOk(mapData, None),
                  bpf_map_result(LibOk(mapData, None)))
  /\ walk' = IdleWalk
  /\ UNCHANGED mapData
  /\ MapPartOnly

\* bpf_cmd::BPF_MAP_GET_NEXT_KEY, as a user-space walk issues it: the first
\* call passes no key, each later call the key the previous call returned;
\* the next_key buffer is written only when the map operation succeeds, and
\* the walk takes its content whenever the syscall returns 0
BPF_MAP_GET_NEXT_KEY ==
  /\ walk.state # "done"
  /\ Len(walk.seen) <= NumKeys
  /\ LET r == LibGetNextKey(mapData, walk.cursor)
         res == bpf_map_result(r)
         buf == IF r.ok THEN r.out ELSE walk.buf
     IN /\ lastOp' = Op("get_next_key", TRUE, 0, 0, "none", r, res)
        /\ walk' = IF res.ok /\ buf # None
                     THEN [state |-> "walking", cursor |-> buf, buf |-> buf,
                           seen |-> Append(walk.seen, Unwrap(buf))]
                     ELSE [walk EXCEPT !.state = "done"]
  /\ UNCHANGED <<mapData, frozen>>
  /\ MapPartOnly

\* bpf_cmd::BPF_PROG_LOAD: the program file is created; the maps it refers
\* to are kept alive and otherwise left alone
BPF_PROG_LOAD ==
  /\ lastOp' = Op("prog_load", TRUE, 0, 0, "none", LibOk(mapData, None),
                  [ok |-> TRUE, err |-> "none"])
  /\ walk' = IdleWalk
  /\ UNCHANGED <<mapData, frozen>>
  /\ MapPartOnly

\* bpf_map_update_elem called by a BPF program through the helper table
helper_map_update_elem(k, v, flags, e) ==
  /\ LET r == LibUpdateElem(mapData, frozen, FALSE, k, v, flags, e)
     IN /\ mapData' = r.data
        /\ lastOp' = Op("update", FALSE, k, v, flags, r, bpf_map_result(r))
        /\ walk' = IdleWalk
  /\ UNCHANGED frozen
  /\ MapPartOnly

\* the error kinds a rejection may carry where the kind is the map's own
\* choice; a single one where the call is not rejected in such a way
UpdateRejectKinds(fromUser, k, flags) ==
  IF (fromUser /\ frozen) \/ (flags = "BPF_NOEXIST" /\ mapData[k] # None)
    THEN BpfErrors ELSE {"InvalidArgument"}
DeleteRejectKinds == IF frozen THEN BpfErrors ELSE {"InvalidArgument"}
\* the values worth trying: a refused update never looks at the value, so
\* one value stands for all of them there
UpdateValues(fromUser, k, flags) ==
  LET v0 == CHOOSE v \in Vals : TRUE
  IN IF LibUpdateElem(mapData, frozen, fromUser, k, v0, flags, "NotFound").ok
       THEN Vals ELSE {v0}

NextMap ==
  \/ \E k \in Keys, f \in UpdateFlags :
       \E v \in UpdateValues(TRUE, k, f), e \in UpdateRejectKinds(TRUE, k, f) :
         BPF_MAP_UPDATE_ELEM(k, v, f, e)
  \/ \E k \in Keys : BPF_MAP_LOOKUP_ELEM(k)
  \/ \E k \in Keys : \E e \in DeleteRejectKinds : BPF_MAP_DELETE_ELEM(k, e)
  \/ BPF_MAP_FREEZE
  \/ BPF_PROG_LOAD
  \/ BPF_MAP_GET_NEXT_KEY
  \/ \E k \in Keys, f \in UpdateFlags :
       \E v \in UpdateValues(FALSE, k, f), e \in UpdateRejectKinds(FALSE, k, f) :
         helper_map_update_elem(k, v, f, e)


(* ------------------------- claims C7 .. C10 ---------------------------- *)
\* what BPF_MAP_LOOKUP_ELEM returns for key k in the current state
SysLookup(k) ==
  LET r == LibLookupElem(mapData, k)
      res == bpf_map_result(r)
  IN [res |-> res, out |-> IF res.ok THEN r.out ELSE None]
NoDup(q) == \A i, j \in 1..Len(q) : i # j => q[i] # q[j]
\* the error kinds a caller would read as "permission denied"
PermissionErrors == {"PermissionDenied", "OperationNotPermitted"}

C8_UpdateFlagSemantics ==
  (lastOp.cmd = "update" /\ lastOp.fromUser /\ ~lastOp.wasFrozen) =>
    /\ (lastOp.flags = "BPF_NOEXIST" /\ lastOp.before # None) =>
         ~lastOp.res.ok /\ lastOp.res.err = "AlreadyExists"
    /\ (lastOp.flags = "BPF_EXIST" /\ lastOp.before = None) =>
         ~lastOp.res.ok /\ lastOp.res.err = "NotFound"
    /\ (lastOp.flags = "BPF_ANY" /\ ~(lastOp.before = None /\ lastOp.wasFull)) =>
         lastOp.res.ok
    /\ ~lastOp.res.ok => lastOp.same

\* the part of C8 the code does keep: update-only on an absent key is
\* NotFound, either succeeds, and a failed update changes nothing
UpdateFlagsExceptExists ==
  (lastOp.cmd = "update" /\ lastOp.fromUser /\ ~lastOp.wasFrozen) =>
    /\ (lastOp.flags = "BPF_NOEXIST" /\ lastOp.before # None) => ~lastOp.res.ok
    /\ (lastOp.flags = "BPF_EXIST" /\ lastOp.before = None) =>
         ~lastOp.res.ok /\ lastOp.res.err = "NotFound"
    /\ (lastOp.flags = "BPF_ANY" /\ ~(lastOp.before = None /\ lastOp.wasFull)) =>
         lastOp.res.ok
    /\ ~lastOp.res.ok => lastOp.same

\* C9: a walk with get_next_key over a map that is not modified meanwhile
\* returns no key twice and only keys of the map, and when it ends it has
\* returned every key of the map; the end is reported as NotFound.
C9_WalkEnumeratesOnce ==
  /\ NoDup(walk.seen)
  /\ Range(walk.seen) \subseteq Present(mapData)
  /\ walk.state = "done" => Range(walk.seen) = Present(mapData)
  /\ (lastOp.cmd = "get_next_key" /\ ~lastOp.res.ok) => lastOp.res.err = "NotFound"
  /\ (lastOp.cmd = "get_next_key" /\ walk.state = "done") =>
       ~lastOp.res.ok /\ lastOp.res.err = "NotFound"

\* C9 witness: a walk over a full map has ended.
C9_Witness ==
  /\ walk.state = "done"
  /\ Len(walk.seen) >= 2
  /\ Cardinality(Present(mapData)) >= 2

\* C10: on a frozen map an update from user space fails with a
\* permission-style error and leaves the map unchanged, while an update by a
\* BPF program through the helper path still succeeds.
C10_FrozenRejectsUser ==
  (lastOp.cmd = "update" /\ lastOp.wasFrozen) =>
    IF lastOp.fromUser
      THEN ~lastOp.res.ok /\ lastOp.res.err \in PermissionErrors /\ lastOp.same
      ELSE (lastOp.flags = "BPF_ANY" /\ ~(lastOp.before = None /\ lastOp.wasFull)) =>
             lastOp.res.ok

\* the part of C10 that holds of the model: the user-space update is
\* rejected without changing the map, the helper's update goes through
FrozenRejectsUserSomehow ==
  (lastOp.cmd = "update" /\ lastOp.wasFrozen) =>
    IF lastOp.fromUser
      THEN ~lastOp.res.ok /\ lastOp.same
      ELSE (lastOp.flags = "BPF_ANY" /\ ~(lastOp.before = None /\ lastOp.wasFull)) =>
             lastOp.res.ok

(* ===================== kprobe-backed perf events ======================= *)
NoKpe == [state |-> "none", probe |-> 0, enabled |-> FALSE, setbpf |-> FALSE,
          attached |-> FALSE]

InitKperf ==
  /\ kpe = NoKpe
  /\ counter = 0
  /\ calls = 0

\* perf_event_open with the kprobe type: perf_event_open_kprobe registers a
\* kprobe at the address and the event is added as a file
perf_event_open_kprobe(addr, enabled) ==
  /\ kpe.state = "none"
  /\ nextId \in ProbeIds
  /\ LET id == nextId
         r == LibRegister(KPROBE_MANAGER, KPROBE_POINT_LIST, Mem(kmem, umem),
                          addr, None, id)
     IN /\ KPROBE_MANAGER' = r.manager
        /\ KPROBE_POINT_LIST' = r.plist
        /\ kmem' = r.mem.k
        /\ umem' = r.mem.u
        /\ probes' = [probes EXCEPT ![id] =
                        [state |-> "registered", kind |-> "k", addr |-> addr,
                         owner |-> 0, pid |-> None]]
        /\ nextId' = nextId + 1
        /\ kpe' = [NoKpe EXCEPT !.state = "open", !.probe = id, !.enabled = enabled]
  /\ trap' = NoTrap
  /\ UNCHANGED <<uprobe_manager, uprobe_point_list, counter, calls>>
  /\ KperfPartOnly

PerfEventIoc == {"Enable", "Disable", "SetBpf"}

\* a mutation of PerfEvent_ioctl: SetBpf returns without attaching the program
PerfEvent_ioctl_SetBpf_lost(req) ==
  /\ kpe.state = "open"
  /\ req = "SetBpf" => ~kpe.setbpf
  /\ kpe' = CASE req = "Enable" -> [kpe EXCEPT !.enabled = TRUE]
              [] req = "Disable" -> [kpe EXCEPT !.enabled = FALSE]
              [] req = "SetBpf" -> [kpe EXCEPT !.setbpf = TRUE]
  /\ UNCHANGED <<probeVars, counter, calls>>
  /\ KperfPartOnly

\* PerfEvent::ioctl on the kprobe-backed event: Enable and Disable go to the
\* event; SetBpf downcasts the event to KprobePerfEvent and hands it the
\* program
PerfEvent_ioctl(req) ==
  /\ kpe.state = "open"
  /\ req = "SetBpf" => ~kpe.setbpf
  /\ kpe' = CASE req = "Enable" -> [kpe EXCEPT !.enabled = TRUE]
              [] req = "Disable" -> [kpe EXCEPT !.enabled = FALSE]
              [] req = "SetBpf" -> [kpe EXCEPT !.setbpf = TRUE, !.attached = TRUE]
  /\ UNCHANGED <<probeVars, counter, calls>>
  /\ KperfPartOnly

\* the event's file is closed: its kprobe is unregistered
KprobePerfEvent_drop ==
  /\ kpe.state = "open"
  /\ LET id == kpe.probe
         r == LibUnregister(KPROBE_MANAGER, KPROBE_POINT_LIST, Mem(kmem, umem),
                            probes[id].addr, id)
     IN /\ KPROBE_MANAGER' = r.manager
        /\ KPROBE_POINT_LIST' = r.plist
        /\ kmem' = r.mem.k
        /\ umem' = r.mem.u
        /\ probes' = [probes EXCEPT ![id].state = "unregistered"]
  /\ kpe' = [kpe EXCEPT !.state = "closed"]
  /\ trap' = NoTrap
  /\ UNCHANGED <<nextId, uprobe_manager, uprobe_point_list, counter, calls>>
  /\ KperfPartOnly

\* how often the event's program runs in a dispatch that fired `fired`: once
\* for each run of the pre-handler of the event's enabled probe
ProgramRuns(fired) ==
  IF kpe.state = "open" /\ kpe.enabled /\ kpe.attached
    THEN Len(SelectSeq(fired, LAMBDA i : i = kpe.probe))
    ELSE 0

\* the function at addr is called: its first instruction executes, which
\* traps into kernel_ebreak_handler when it is a breakpoint; the program of
\* the event runs inside the dispatch, before the call goes on
CallF(addr) ==
  /\ calls < MaxCalls
  /\ IF kmem[addr] = BrkInsn
       THEN LET d == run_all_kprobe(addr)
            IN /\ trap' = [mode |-> "kernel", pid |-> 0, addr |-> addr,
                           found |-> d.res # None, fired |-> d.fired,
                           handled |-> EbreakResult(d.res), skipped |-> d.res = None]
               /\ counter' = counter + ProgramRuns(d.fired)
       ELSE /\ trap' = NoTrap
            /\ UNCHANGED counter
  /\ calls' = IF kpe.state = "open" /\ kpe.enabled /\ kpe.setbpf
                 /\ probes[kpe.probe].addr = addr
                THEN calls + 1 ELSE calls
  /\ UNCHANGED <<kmem, umem, KPROBE_MANAGER, KPROBE_POINT_LIST, uprobe_manager,
                 uprobe_point_list, probes, nextId, kpe>>
  /\ KperfPartOnly

\* the handle of the event's kprobe is held by the event alone, so the other
\* holders unregister the other kprobes
NextKperf ==
  \/ \E a \in ProbeAddrs, en \in BOOLEAN : perf_event_open_kprobe(a, en)
  \/ \E req \in PerfEventIoc : PerfEvent_ioctl(req)
  \/ KprobePerfEvent_drop
  \/ \E a \in ProbeAddrs : CallF(a)
  \/ \E a \in ProbeAddrs : register_kprobe(a)
  \/ \E i \in ProbeIds \ {kpe.probe} : unregister_kprobe(i)

NoWrite == [done |-> FALSE, wasEnabled |-> FALSE, wasMapped |-> FALSE,
            appended |-> FALSE, woke |-> FALSE, res |-> "none"]
IdlePoller == [pc |-> "idle", woken |-> FALSE, by |-> "none"]

InitBpf ==
  /\ bpe = [enabled |-> FALSE, mmapped |-> FALSE]
  /\ ring = 0
  /\ written = 0
  /\ poll_ready = FALSE
  /\ poller = IdlePoller
  /\ lastWrite = NoWrite
  /\ staleSamples = FALSE

\* BpfPerfEvent::write_event: the sample is appended to the ring
LibWriteEvent(r, data) == r + 1
\* BpfPerfEvent::readable
LibReadable(r) == r > 0

\* PollSet::wake: the registered wakers are taken out and woken
PollSetWake ==
  /\ poll_ready' = FALSE
  /\ poller' = IF poll_ready THEN [poller EXCEPT !.woken = TRUE] ELSE poller

\* a mutation of BpfPerfEventWrapper_write_event: the pollers are not woken
BpfPerfEventWrapper_write_event_silent(data) ==
  /\ written < MaxWrites
  /\ written' = written + 1
  /\ IF ~bpe.mmapped
       THEN /\ lastWrite' = [NoWrite EXCEPT !.done = TRUE, !.wasEnabled = bpe.enabled,
                                              !.res = "Ok"]
            /\ UNCHANGED <<ring, poll_ready, poller, staleSamples>>
       ELSE /\ ring' = LibWriteEvent(ring, data)
            /\ staleSamples' = (staleSamples \/ ~bpe.enabled)
            /\ UNCHANGED <<poll_ready, poller>>
            /\ lastWrite' = [done |-> TRUE, wasEnabled |-> bpe.enabled, wasMapped |-> TRUE,
                             appended |-> TRUE, woke |-> FALSE, res |-> "Ok"]
  /\ UNCHANGED bpe
  /\ BpfPartOnly

\* BpfPerfEventWrapper::write_event, called by perf_event_output with the
\* event locked: without a mapping the sample is given up with Ok; otherwise
\* it is written to the inner event and, when the event is enabled, the
\* PollSet is woken
BpfPerfEventWrapper_write_event(data) ==
  /\ written < MaxWrites
  /\ written' = written + 1
  /\ IF ~bpe.mmapped
       THEN /\ lastWrite' = [NoWrite EXCEPT !.done = TRUE, !.wasEnabled = bpe.enabled,
                                              !.res = "Ok"]
            /\ UNCHANGED <<ring, poll_ready, poller, staleSamples>>
       ELSE /\ ring' = LibWriteEvent(ring, data)
            /\ staleSamples' = (staleSamples \/ ~bpe.enabled)
            /\ IF bpe.enabled THEN PollSetWake ELSE UNCHANGED <<poll_ready, poller>>
            /\ lastWrite' = [done |-> TRUE, wasEnabled |-> bpe.enabled, wasMapped |-> TRUE,
                             appended |-> TRUE, woke |-> bpe.enabled, res |-> "Ok"]
  /\ UNCHANGED bpe
  /\ BpfPartOnly

\* BpfPerfEventWrapper::enable
BpfPerfEventWrapper_enable ==
  /\ bpe' = [bpe EXCEPT !.enabled = TRUE]
  /\ lastWrite' = NoWrite
  /\ UNCHANGED <<ring, written, poll_ready, poller, staleSamples>>
  /\ BpfPartOnly

\* BpfPerfEventWrapper::disable
BpfPerfEventWrapper_disable ==
  /\ bpe' = [bpe EXCEPT !.enabled = FALSE]
  /\ lastWrite' = NoWrite
  /\ UNCHANGED <<ring, written, poll_ready, poller, staleSamples>>
  /\ BpfPartOnly

\* BpfPerfEventWrapper::mmap: the pages are allocated and mapped and the
\* inner event is armed to write there
BpfPerfEventWrapper_mmap ==
  /\ ~bpe.mmapped
  /\ bpe' = [bpe EXCEPT !.mmapped = TRUE]
  /\ lastWrite' = NoWrite
  /\ UNCHANGED <<ring, written, poll_ready, poller, staleSamples>>
  /\ BpfPartOnly

\* user space reads the samples out of the mapped ring
ConsumeSamples ==
  /\ ring > 0
  /\ ring' = 0
  /\ staleSamples' = FALSE
  /\ lastWrite' = NoWrite
  /\ UNCHANGED <<bpe, written, poll_ready, poller>>
  /\ BpfPartOnly

\* Pollable::poll of the event (PerfEvent locks the event for the call)
BpfPerfEventWrapper_poll == IF LibReadable(ring) THEN {"IN"} ELSE {}

\* the poller's readiness check: poll_io runs the closure, which polls the
\* file; it is the first check of a poll or the one after registering
PollCheck ==
  /\ poller.pc \in {"idle", "registered"}
  /\ poller' = IF "IN" \in BpfPerfEventWrapper_poll
                 THEN [pc |-> "returned", woken |-> FALSE,
                       by |-> IF poller.pc = "idle" THEN "check" ELSE "recheck"]
                 ELSE IF poller.pc = "idle" THEN [poller EXCEPT !.pc = "checked"]
                 ELSE [poller EXCEPT !.pc = "pending"]
  /\ lastWrite' = NoWrite
  /\ UNCHANGED <<bpe, ring, written, poll_ready, staleSamples>>
  /\ BpfPartOnly

\* Pollable::register of the event for IN (PerfEvent locks the event for
\* the call): the waker goes into the PollSet
BpfPerfEventWrapper_register ==
  /\ poller.pc = "checked"
  /\ poll_ready' = TRUE
  /\ poller' = [poller EXCEPT !.pc = "registered"]
  /\ lastWrite' = NoWrite
  /\ UNCHANGED <<bpe, ring, written, staleSamples>>
  /\ BpfPartOnly

\* block_on: a pending poller that was woken polls again; one that was not
\* stays suspended
PollerResume ==
  /\ poller.pc = "pending"
  /\ poller.woken
  /\ poller' = [pc |-> "idle", woken |-> FALSE, by |-> "wake"]
  /\ lastWrite' = NoWrite
  /\ UNCHANGED <<bpe, ring, written, poll_ready, staleSamples>>
  /\ BpfPartOnly

\* the poll returned; the task polls again later
PollAgain ==
  /\ poller.pc = "returned"
  /\ poller' = IdlePoller
  /\ lastWrite' = NoWrite
  /\ UNCHANGED <<bpe, ring, written, poll_ready, staleSamples>>
  /\ BpfPartOnly

(* ------------------ SET_BPF on the other kinds of event ---------------- *)
EventKinds == {"kprobe", "tracepoint", "bpf_output"}
ProgFds == {"prog", "closed"}
NoIoctl == [done |-> FALSE, kind |-> "none", fd |-> "none", res |-> "none",
            attached |-> FALSE, refsBefore |-> 0, same |-> TRUE]

InitIoctl ==
  /\ lastIoctl = NoIoctl
  /\ progRefs = 1

\* a mutation of DowncastKprobePerfEvent: every event passes
DowncastKprobePerfEvent_any(kind) == Some(kind)

\* event.as_any_mut().downcast_mut::<KprobePerfEvent>()
DowncastKprobePerfEvent(kind) == IF kind = "kprobe" THEN Some(kind) ELSE None

\* PerfEvent::ioctl(SetBpf) on a perf event of the given kind that is not
\* kprobe-backed: the program's file is looked up, the event is downcast, and
\* only a KprobePerfEvent is handed the program; the looked-up reference is
\* dropped when the call returns without attaching
PerfEvent_ioctl_SetBpf(kind, fd) ==
  /\ kind # "kprobe"
  /\ ~lastIoctl.attached
  /\ IoctlPartOnly
  /\ LET found == fd = "prog"
         target == IF found THEN DowncastKprobePerfEvent(kind) ELSE None
         attach == target # None
         res == IF ~found THEN "BadFileDescriptor"
                ELSE IF attach THEN "Ok" ELSE "InvalidInput"
     IN /\ progRefs' = IF attach THEN progRefs + 1 ELSE progRefs
        /\ lastIoctl' = [done |-> TRUE, kind |-> kind, fd |-> fd, res |-> res,
                         attached |-> attach, refsBefore |-> progRefs,
                         same |-> bpe' = bpe /\ raw_callbacks' = raw_callbacks]

\* C21: SET_BPF on a tracepoint-backed or BPF-output perf event returns an
\* error, attaches nothing, and leaves the event's state and the number of
\* references to the program as they were before the call.
C21_SetBpfOnlyOnKprobe ==
  (lastIoctl.done /\ lastIoctl.kind # "kprobe") =>
    /\ lastIoctl.res # "Ok"
    /\ lastIoctl.fd = "prog" => lastIoctl.res = "InvalidInput"
    /\ ~lastIoctl.attached
    /\ lastIoctl.same
    /\ progRefs = lastIoctl.refsBefore

\* C21 witness: SET_BPF with an open program was refused on the enabled,
\* mapped BPF-output event.
C21_Witness ==
  /\ lastIoctl.done /\ lastIoctl.kind = "bpf_output" /\ lastIoctl.fd = "prog"
  /\ lastIoctl.res = "InvalidInput"
  /\ bpe.enabled /\ bpe.mmapped


Samples == {"sample"}

NextBpf ==
  \/ \E d \in Samples : BpfPerfEventWrapper_write_event(d)
  \/ BpfPerfEventWrapper_enable
  \/ BpfPerfEventWrapper_disable
  \/ BpfPerfEventWrapper_mmap
  \/ ConsumeSamples
  \/ PollCheck
  \/ BpfPerfEventWrapper_register
  \/ PollerResume
  \/ PollAgain
  \/ \E k \in EventKinds \ {"kprobe"}, fd \in ProgFds : PerfEvent_ioctl_SetBpf(k, fd)

\* C17: write_event appends the sample and wakes the pollers only on an
\* enabled event; on a disabled event the ring is left as it was and nobody
\* is woken; the call reports success either way.
C17_DisabledWriteDropped ==
  lastWrite.done =>
    /\ lastWrite.res = "Ok"
    /\ lastWrite.appended => lastWrite.wasEnabled
    /\ lastWrite.woke => lastWrite.wasEnabled

\* the part of C17 on waking and on the result: pollers are woken exactly by
\* a write to an enabled mapped event, and every write reports success
WriteWakesOnlyIfEnabled ==
  lastWrite.done =>
    /\ lastWrite.res = "Ok"
    /\ lastWrite.woke = (lastWrite.wasEnabled /\ lastWrite.wasMapped)
    /\ lastWrite.appended = lastWrite.wasMapped

Events == 1..NumEvents
CallbackIds == 0..(MaxCallbacks - 1)
\* a BPF program runs to its end, or faults in the VM, or runs to its end
\* after storing into the record it was handed
Progs == {"sound", "faulty", "scribbling"}
\* a record after a program stored into it
Scribbled(rec) == IF rec > 0 THEN 0 - rec ELSE rec
NoCallback == [present |-> FALSE, prog |-> "none", event |-> 0]
NoFire == [fired |-> FALSE, enabled |-> FALSE, rec |-> 0, recorded |-> FALSE,
           ran |-> <<>>, logged |-> 0, completed |-> TRUE]

InitTrace ==
  /\ tpEnabled = FALSE
  /\ switch = "off"
  /\ raw_callbacks = [i \in CallbackIds |-> NoCallback]
  /\ CALLBACK_ID = 0
  /\ ebpf_list = [e \in Events |-> <<>>]
  /\ evOpen = [e \in Events |-> TRUE]
  /\ registered = <<>>
  /\ TRACE_RAW_PIPE = <<>>
  /\ pushed = 0
  /\ lastFire = NoFire

(* ------ the tracepoint library: callbacks, ring buffer, the fire ------- *)
\* the callbacks of the tracepoint in the order a fire runs them: by id
RECURSIVE IdsFrom(_, _)
IdsFrom(cbs, i) ==
  IF i \notin CallbackIds THEN <<>>
  ELSE (IF cbs[i].present THEN <<i>> ELSE <<>>) \o IdsFrom(cbs, i + 1)
LibCallbackOrder(cbs) == IdsFrom(cbs, 0)

\* TracePipeRaw::push_event: the oldest record makes room when the buffer
\* is full
LibPushEvent(pipe, rec) ==
  IF Len(pipe) >= PipeCapacity THEN Append(Tail(pipe), rec) ELSE Append(pipe, rec)

\* EbpfVmRaw::execute_program: the program gets the entry as its memory,
\* which it may read and write
VmExecute(prog, entry) ==
  [res |-> IF prog = "faulty" THEN "Err" ELSE "Ok",
   entry |-> IF prog = "scribbling" THEN Scribbled(entry) ELSE entry]

\* a mutation of TracePointPerfCallBack_call: a VM fault unwinds into the caller
TracePointPerfCallBack_call_unwinds(prog, entry, aliased) ==
  LET r == VmExecute(prog, entry)
  IN [logged |-> r.res = "Err", unwinds |-> r.res = "Err",
      entry |-> IF aliased THEN r.entry ELSE entry]

\* TracePointPerfCallBack::call: the shared slice `entry` is turned into a
\* mutable one over the same bytes and the program runs on it; an error is
\* logged and the call returns.  `aliased` is whether the stores made through
\* the mutable slice show in the caller's shared slice afterwards.
TracePointPerfCallBack_call(prog, entry, aliased) ==
  LET r == VmExecute(prog, entry)
  IN [logged |-> r.res = "Err", unwinds |-> FALSE,
      entry |-> IF aliased THEN r.entry ELSE entry]

\* the callbacks `ids` are called in turn on the record; a call that does
\* not return ends the run
RECURSIVE RunCallbacks(_, _, _, _)
RunCallbacks(cbs, ids, rec, aliased) ==
  IF ids = <<>> THEN [ran |-> <<>>, logged |-> 0, completed |-> TRUE]
  ELSE LET r == TracePointPerfCallBack_call(cbs[Head(ids)].prog, rec, aliased)
           me == <<[id |-> Head(ids), rec |-> rec]>>
           n == IF r.logged THEN 1 ELSE 0
       IN IF r.unwinds
            THEN [ran |-> me, logged |-> n, completed |-> FALSE]
            ELSE LET rest == RunCallbacks(cbs, Tail(ids), r.entry, aliased)
                 IN [ran |-> me \o rest.ran, logged |-> n + rest.logged,
                     completed |-> rest.completed]

\* a mutation of trace_pipe_push_raw_record: a full buffer keeps what it has
trace_pipe_push_raw_record_keeps_oldest(pipe, buf) ==
  IF Len(pipe) >= PipeCapacity THEN pipe ELSE Append(pipe, buf)

\* KernelTraceAux::trace_pipe_push_raw_record
trace_pipe_push_raw_record(pipe, buf) == LibPushEvent(pipe, buf)

(* ----------------------------- operations ------------------------------ *)
\* a mutation of TracepointPerfEvent_disable: the tracepoint is left as it is
TracepointPerfEvent_disable_kept(e) ==
  /\ evOpen[e]
  /\ switch' = "off"
  /\ lastFire' = NoFire
  /\ UNCHANGED <<tpEnabled, raw_callbacks, CALLBACK_ID, ebpf_list, evOpen, registered,
                 TRACE_RAW_PIPE, pushed>>
  /\ TracePartOnly

\* TracepointPerfEvent::disable (PerfEventIoc::Disable)
TracepointPerfEvent_disable(e) ==
  /\ evOpen[e]
  /\ tpEnabled' = FALSE
  /\ switch' = "off"
  /\ lastFire' = NoFire
  /\ UNCHANGED <<raw_callbacks, CALLBACK_ID, ebpf_list, evOpen, registered,
                 TRACE_RAW_PIPE, pushed>>
  /\ TracePartOnly

\* TracepointPerfEvent::enable (PerfEventIoc::Enable)
TracepointPerfEvent_enable(e) ==
  /\ evOpen[e]
  /\ tpEnabled' = TRUE
  /\ switch' = "on"
  /\ lastFire' = NoFire
  /\ UNCHANGED <<raw_callbacks, CALLBACK_ID, ebpf_list, evOpen, registered,
                 TRACE_RAW_PIPE, pushed>>
  /\ TracePartOnly

\* EventEnableFile::write: an empty buffer is InvalidInput; otherwise the
\* first byte goes to the event's enable file, where '1' enables and '0'
\* disables the tracepoint
EventEnableFile_write(buf) ==
  /\ LET on == buf # <<>> /\ buf[1] = "1"
         off == buf # <<>> /\ buf[1] = "0"
     IN /\ tpEnabled' = IF on THEN TRUE ELSE IF off THEN FALSE ELSE tpEnabled
        /\ switch' = IF on THEN "on" ELSE IF off THEN "off" ELSE switch
  /\ lastFire' = NoFire
  /\ UNCHANGED <<raw_callbacks, CALLBACK_ID, ebpf_list, evOpen, registered,
                 TRACE_RAW_PIPE, pushed>>
  /\ TracePartOnly

\* TracepointPerfEvent::set_bpf_prog: a VM is built for the program, the
\* next CALLBACK_ID is taken and the callback registered under it
set_bpf_prog(e, prog) ==
  /\ evOpen[e]
  /\ CALLBACK_ID \in CallbackIds
  /\ LET id == CALLBACK_ID
     IN /\ raw_callbacks' = [raw_callbacks EXCEPT ![id] =
                               [present |-> TRUE, prog |-> prog, event |-> e]]
        /\ ebpf_list' = [ebpf_list EXCEPT ![e] = Append(@, id)]
        /\ registered' = Append(registered, id)
  /\ CALLBACK_ID' = CALLBACK_ID + 1
  /\ lastFire' = NoFire
  /\ UNCHANGED <<tpEnabled, switch, evOpen, TRACE_RAW_PIPE, pushed>>
  /\ TracePartOnly

\* a mutation of TracepointPerfEvent_drop: the list of ids is cleared and the
\* callbacks stay registered with the tracepoint
TracepointPerfEvent_drop_forgets(e) ==
  /\ evOpen[e]
  /\ ebpf_list' = [ebpf_list EXCEPT ![e] = <<>>]
  /\ evOpen' = [evOpen EXCEPT ![e] = FALSE]
  /\ lastFire' = NoFire
  /\ UNCHANGED <<tpEnabled, switch, raw_callbacks, registered, CALLBACK_ID,
                 TRACE_RAW_PIPE, pushed>>
  /\ TracePartOnly

\* Drop for TracepointPerfEvent: every callback of the event is unregistered
TracepointPerfEvent_drop(e) ==
  /\ evOpen[e]
  /\ raw_callbacks' = [i \in CallbackIds |->
                         IF i \in Range(ebpf_list[e]) THEN NoCallback ELSE raw_callbacks[i]]
  /\ ebpf_list' = [ebpf_list EXCEPT ![e] = <<>>]
  /\ registered' = SelectSeq(registered, LAMBDA i : i \notin Range(ebpf_list[e]))
  /\ evOpen' = [evOpen EXCEPT ![e] = FALSE]
  /\ lastFire' = NoFire
  /\ UNCHANGED <<tpEnabled, switch, CALLBACK_ID, TRACE_RAW_PIPE, pushed>>
  /\ TracePartOnly

\* whether some registered program stores into its record
SomeScribbler(cbs) == \E i \in CallbackIds : cbs[i].present /\ cbs[i].prog = "scribbling"

\* the traced site is passed: when the tracepoint is enabled the record is
\* pushed into the trace buffer and the callbacks are called in order
TracepointFire ==
  /\ pushed < MaxFires
  /\ \E aliased \in (IF SomeScribbler(raw_callbacks) THEN BOOLEAN ELSE {TRUE}) :
       LET rec == pushed + 1
           run == RunCallbacks(raw_callbacks, LibCallbackOrder(raw_callbacks), rec, aliased)
       IN IF tpEnabled
            THEN /\ TRACE_RAW_PIPE' = trace_pipe_push_raw_record(TRACE_RAW_PIPE, rec)
                 /\ pushed' = pushed + 1
                 /\ lastFire' = [fired |-> TRUE, enabled |-> TRUE, rec |-> rec,
                                 recorded |-> TRUE, ran |-> run.ran,
                                 logged |-> run.logged, completed |-> run.completed]
            ELSE /\ lastFire' = [NoFire EXCEPT !.fired = TRUE]
                 /\ UNCHANGED <<TRACE_RAW_PIPE, pushed>>
  /\ UNCHANGED <<tpEnabled, switch, raw_callbacks, CALLBACK_ID, ebpf_list, evOpen, registered>>
  /\ TracePartOnly

EnableFileBufs == {<<>>, <<"0">>, <<"1">>, <<"x">>}

NextTrace ==
  \/ \E e \in Events : TracepointPerfEvent_enable(e)
  \/ \E e \in Events : TracepointPerfEvent_disable(e)
  \/ \E b \in EnableFileBufs : EventEnableFile_write(b)
  \/ \E e \in Events, g \in Progs : set_bpf_prog(e, g)
  \/ \E e \in Events : TracepointPerfEvent_drop(e)
  \/ TracepointFire


(* ------------------------- claims on tracepoints ----------------------- *)
RanIds == [i \in 1..Len(lastFire.ran) |-> lastFire.ran[i].id]
Min(a, b) == IF a < b THEN a ELSE b

\* C12: the tracepoint is enabled exactly when the last enable / disable
\* request (through a perf event or the enable file) was an enable, and a
\* fire pushes its record into the trace buffer and runs the registered
\* callbacks exactly when the tracepoint is enabled at that moment; a fire
\* of a disabled tracepoint records nothing and runs no callback.
C12_FiresExactlyWhenEnabled ==
  /\ tpEnabled = (switch = "on")
  /\ lastFire.fired =>
       /\ lastFire.enabled = tpEnabled
       /\ lastFire.recorded = tpEnabled
       /\ tpEnabled =>
            /\ TRACE_RAW_PIPE # <<>>
            /\ TRACE_RAW_PIPE[Len(TRACE_RAW_PIPE)] = lastFire.rec
            /\ lastFire.rec = pushed
            /\ Range(RanIds) = {i \in CallbackIds : raw_callbacks[i].present}
       /\ ~tpEnabled => (lastFire.ran = <<>> /\ lastFire.rec = 0)

\* C12 witness: a tracepoint that recorded fires earlier and has callbacks
\* registered was passed while disabled.
C12_Witness ==
  /\ lastFire.fired /\ ~lastFire.enabled
  /\ pushed > 0
  /\ registered # <<>>

C15_FaultIsolated ==
  (lastFire.fired /\ lastFire.enabled) =>
    /\ lastFire.completed
    /\ Len(lastFire.ran) = Cardinality({i \in CallbackIds : raw_callbacks[i].present})
    /\ \A i \in CallbackIds : raw_callbacks[i].present => i \in Range(RanIds)
    /\ lastFire.logged =
         Cardinality({i \in CallbackIds :
                        raw_callbacks[i].present /\ raw_callbacks[i].prog = "faulty"})

\* C15 witness: a second or later fire in which a faulting program was
\* invoked and a sound one after it.
C15_Witness ==
  /\ lastFire.fired /\ lastFire.enabled /\ pushed >= 2
  /\ \E i, j \in 1..Len(lastFire.ran) :
       /\ i < j
       /\ raw_callbacks[lastFire.ran[i].id].prog = "faulty"
       /\ raw_callbacks[lastFire.ran[j].id].prog = "sound"

\* C16: a fire of the enabled tracepoint invokes the registered callbacks
\* in the order of their registration, each once and each on the record of
\* that fire; callbacks unregistered in between leave the order of the
\* others as it was.
C16_CallbacksInRegistrationOrder ==
  (lastFire.fired /\ lastFire.enabled) =>
    /\ RanIds = registered
    /\ NoDup(RanIds)
    /\ \A i \in 1..Len(lastFire.ran) : lastFire.ran[i].rec = lastFire.rec

\* the order and the once-only part of C16
CallbacksRunInRegistrationOrder ==
  (lastFire.fired /\ lastFire.enabled) => (RanIds = registered /\ NoDup(RanIds))


\* the callbacks the event e registered that are still with the tracepoint
CallbacksOf(e) == {i \in CallbackIds : raw_callbacks[i].present /\ raw_callbacks[i].event = e}

\* C32: callbacks are added and removed by id.  The id set_bpf_prog hands
\* out next is the id of no registered callback; an open event has exactly
\* the callbacks of its id list registered and a closed event has none;
\* closing an event removes its callbacks and leaves every other callback
\* as it was; a fire runs no callback of a closed event.
C32_CallbacksRemovedWithTheirEvent ==
  /\ [](/\ \A i \in CallbackIds : raw_callbacks[i].present => i < CALLBACK_ID
        /\ \A e \in Events : CallbacksOf(e) = (IF evOpen[e] THEN Range(ebpf_list[e]) ELSE {})
        /\ \A e \in Events : NoDup(ebpf_list[e])
        /\ \A k \in 1..Len(lastFire.ran) : evOpen[raw_callbacks[lastFire.ran[k].id].event])
  /\ [][\A e \in Events :
          (evOpen[e] /\ ~evOpen'[e]) =>
            \A i \in CallbackIds :
              raw_callbacks'[i] = IF i \in CallbacksOf(e) THEN NoCallback
                                  ELSE raw_callbacks[i]]_allVars

\* C32 witness: a callback was removed with its event, and a later fire ran
\* a callback of an event that is open.
C32_Witness ==
  /\ lastFire.fired /\ lastFire.enabled /\ lastFire.ran # <<>>
  /\ \E e \in Events : ~evOpen[e]
  /\ \E i \in CallbackIds : i < CALLBACK_ID /\ ~raw_callbacks[i].present


(* ===================== the reader of the trace pipe ==================== *)
IdleReader == [pc |-> "idle", woken |-> FALSE, sigpending |-> FALSE,
               aborted |-> FALSE, res |-> "none", got |-> <<>>]

InitPipe ==
  /\ reader = IdleReader
  /\ child_exit_event = FALSE

TraceIdle == UNCHANGED <<tpEnabled, switch, raw_callbacks, CALLBACK_ID, ebpf_list,
                         evOpen, registered, lastFire>>

\* TracePipeFile::readable
TracePipeFile_readable == TRACE_RAW_PIPE # <<>>

\* common_trace_pipe_read: the records of the pipe are formatted into the
\* caller's buffer and popped
common_trace_pipe_read(pipe) == [got |-> pipe, left |-> <<>>]

\* a producer passes an enabled tracepoint: the record is pushed
ProducerPush ==
  /\ pushed < MaxFires
  /\ TRACE_RAW_PIPE' = trace_pipe_push_raw_record(TRACE_RAW_PIPE, pushed + 1)
  /\ pushed' = pushed + 1
  /\ TraceIdle
  /\ UNCHANGED pipeVars
  /\ PipePartOnly

\* a mutation of AfterWait: the result of the wait is not looked at
AfterWait_ignored(res) == "try"

\* TracePipeFile::read after block_on returned: an error leaves read through
\* `?`, otherwise the loop goes round
AfterWait(res) == IF res = "Interrupted" THEN "returned" ELSE "try"

\* TracePipeFile::read, top of the loop: the pipe is locked and read; a
\* non-empty read ends the call, an empty one goes on to wait
TracePipeFile_read ==
  /\ reader.pc \in {"idle", "try"}
  /\ LET r == common_trace_pipe_read(TRACE_RAW_PIPE)
         me == IF reader.pc = "idle"
                 THEN [IdleReader EXCEPT !.sigpending = reader.sigpending]
                 ELSE reader
     IN IF r.got # <<>>
          THEN /\ TRACE_RAW_PIPE' = r.left
               /\ reader' = [me EXCEPT !.pc = "returned", !.res = "Ok", !.got = r.got]
          ELSE /\ reader' = [me EXCEPT !.pc = "wait"]
               /\ UNCHANGED TRACE_RAW_PIPE
  /\ UNCHANGED <<pushed, child_exit_event>>
  /\ TraceIdle
  /\ PipePartOnly

\* the wait of read is polled: interruptible ends it with an error when a
\* signal is pending; otherwise the closure finds the pipe readable, or
\* registers the waker with proc_data.child_exit_event and is pending
TracePipeFile_read_wait ==
  /\ reader.pc = "wait"
  /\ IF reader.sigpending
       THEN /\ reader' = [reader EXCEPT !.pc = AfterWait("Interrupted"), !.aborted = TRUE,
                                        !.res = IF AfterWait("Interrupted") = "returned"
                                                  THEN "Interrupted" ELSE @]
            /\ UNCHANGED child_exit_event
       ELSE IF TracePipeFile_readable
         THEN /\ reader' = [reader EXCEPT !.pc = AfterWait("Ok")]
              /\ UNCHANGED child_exit_event
         ELSE /\ child_exit_event' = TRUE
              /\ reader' = [reader EXCEPT !.pc = "suspended", !.woken = FALSE]
  /\ UNCHANGED <<TRACE_RAW_PIPE, pushed>>
  /\ TraceIdle
  /\ PipePartOnly

\* block_on: the suspended reader was woken and its wait is polled again
ReaderResume ==
  /\ reader.pc = "suspended"
  /\ reader.woken
  /\ reader' = [reader EXCEPT !.pc = "wait", !.woken = FALSE]
  /\ UNCHANGED <<TRACE_RAW_PIPE, pushed, child_exit_event>>
  /\ TraceIdle
  /\ PipePartOnly

\* a child of the reader's process exits: child_exit_event is woken
ChildExit ==
  /\ child_exit_event' = FALSE
  /\ reader' = IF child_exit_event /\ reader.pc = "suspended"
                 THEN [reader EXCEPT !.woken = TRUE] ELSE reader
  /\ UNCHANGED <<TRACE_RAW_PIPE, pushed>>
  /\ TraceIdle
  /\ PipePartOnly

\* a signal is sent to the reader: it becomes pending and interrupts the task
SignalArrives ==
  /\ ~reader.sigpending
  /\ reader' = [reader EXCEPT !.sigpending = TRUE,
                              !.woken = IF reader.pc = "suspended" THEN TRUE ELSE @]
  /\ UNCHANGED <<TRACE_RAW_PIPE, pushed, child_exit_event>>
  /\ TraceIdle
  /\ PipePartOnly

\* read has returned to user space, where a pending signal is handled
ReadReturns ==
  /\ reader.pc = "returned"
  /\ reader' = IdleReader
  /\ UNCHANGED <<TRACE_RAW_PIPE, pushed, child_exit_event>>
  /\ TraceIdle
  /\ PipePartOnly

NextPipe ==
  \/ ProducerPush
  \/ TracePipeFile_read
  \/ TracePipeFile_read_wait
  \/ ReaderResume
  \/ ChildExit
  \/ SignalArrives
  \/ ReadReturns

\* C19: a reader suspended in read on the trace pipe is woken by the push of
\* a record: it is never left suspended and unwoken while the pipe holds a
\* record, so that it returns the record without a child exit or a signal.
C19_PushWakesReader ==
  (reader.pc = "suspended" /\ TracePipeFile_readable) => reader.woken

\* a reader is suspended and unwoken beside a pipe that holds a record
C19_Stuck ==
  /\ reader.pc = "suspended" /\ ~reader.woken /\ ~reader.sigpending
  /\ TracePipeFile_readable /\ child_exit_event

\* C20: a read whose wait was ended by a pending signal returns at once with
\* the interruption error and has taken no record out of the pipe; a reader
\* with a pending signal is never left suspended.
C20_SignalCancelsRead ==
  /\ reader.aborted =>
       (reader.pc = "returned" /\ reader.res = "Interrupted" /\ reader.got = <<>>)
  /\ (reader.pc = "returned" /\ reader.res = "Interrupted") => reader.got = <<>>
  /\ (reader.pc = "suspended" /\ reader.sigpending) => reader.woken

\* C20 witness: a read that was suspended has returned the interruption error
\* while the pipe holds a record pushed during its wait.
C20_Witness ==
  /\ reader.pc = "returned" /\ reader.res = "Interrupted" /\ reader.aborted
  /\ child_exit_event
  /\ TracePipeFile_readable


LMaps == {"A", "B"}
Cpus == {"cpu0", "cpu1"}
LockKeys == {"k"}
MapCmds == {"update", "lookup", "delete", "lookup_and_delete"}

IdleCpu == [pc |-> "idle", map |-> "none", cmd |-> "none", key |-> "none", got |-> None]
NoLad == [done |-> FALSE, got |-> None, removed |-> None]
NoSpin == [done |-> FALSE, map |-> "none", by |-> "none", mid |-> FALSE]

InitLock ==
  /\ lmaps = [m \in LMaps |-> [k \in LockKeys |-> None]]
  /\ lockOwner = [m \in LMaps |-> None]
  /\ cpu = [c \in Cpus |-> IdleCpu]
  /\ lad = NoLad
  /\ spin = NoSpin
  /\ midSeen = FALSE

LockOf_global(m) == CHOOSE l \in LMaps : TRUE

\* BpfMap { unified_map: SpinNoPreempt<UnifiedMap> }: the lock is a field of
\* the map instance
LockOf(m) == m

unified_map_lock_absent(owners, m) == TRUE

\* SpinNoPreempt::lock succeeds when nobody holds the lock, and spins otherwise
unified_map_lock(owners, m) == owners[LockOf(m)] = None

InCritical(c) == cpu[c].pc \in {"held", "looked"}

\* a command on map m with key k enters the kernel on CPU c
MapCommand(c, m, cmd, k) ==
  /\ cpu[c].pc = "idle"
  /\ cpu' = [cpu EXCEPT ![c] = [pc |-> "want", map |-> m, cmd |-> cmd, key |-> k,
                                 got |-> None]]
  /\ UNCHANGED <<lmaps, lockOwner, lad, spin, midSeen>>
  /\ LockPartOnly

\* BpfMap::unified_map: the guard over the map is taken
BpfMap_unified_map(c) ==
  /\ cpu[c].pc = "want"
  /\ unified_map_lock(lockOwner, cpu[c].map)
  /\ lockOwner' = [lockOwner EXCEPT ![LockOf(cpu[c].map)] = Some(c)]
  /\ cpu' = [cpu EXCEPT ![c].pc = "held"]
  /\ UNCHANGED <<lmaps, lad, spin, midSeen>>
  /\ LockPartOnly

\* the lock is taken: the CPU spins, it does not sleep
SpinOnce(c) ==
  /\ cpu[c].pc = "want"
  /\ ~unified_map_lock(lockOwner, cpu[c].map)
  /\ LET holder == Unwrap(lockOwner[LockOf(cpu[c].map)])
     IN spin' = [done |-> TRUE, map |-> cpu[c].map, by |-> cpu[holder].map,
                 mid |-> cpu[holder].pc = "looked"]
  /\ UNCHANGED <<lmaps, lockOwner, cpu, lad, midSeen>>
  /\ LockPartOnly

\* the guard is dropped at the end of the command
DropGuard(c) == [lockOwner EXCEPT ![LockOf(cpu[c].map)] = None]

\* whether another CPU stands between the lookup and the delete of a
\* lookup-and-delete of the same entry
Between(c) ==
  \E d \in Cpus \ {c} : /\ cpu[d].pc = "looked"
                        /\ cpu[d].map = cpu[c].map
                        /\ cpu[d].key = cpu[c].key

\* update, lookup and delete under the guard
SimpleCommand(c) ==
  /\ cpu[c].pc = "held"
  /\ cpu[c].cmd \in {"update", "lookup", "delete"}
  /\ LET m == cpu[c].map
         k == cpu[c].key
     IN \/ /\ cpu[c].cmd = "update"
           /\ \E v \in Vals : lmaps' = [lmaps EXCEPT ![m][k] = Some(v)]
        \/ /\ cpu[c].cmd = "delete"
           /\ lmaps' = [lmaps EXCEPT ![m][k] = None]
        \/ /\ cpu[c].cmd = "lookup"
           /\ UNCHANGED lmaps
  /\ midSeen' = (midSeen \/ Between(c))
  /\ lockOwner' = DropGuard(c)
  /\ cpu' = [cpu EXCEPT ![c] = IdleCpu]
  /\ UNCHANGED <<lad, spin>>
  /\ LockPartOnly

\* kbpf_basic::map::bpf_map_lookup_and_delete_elem, first half: the value is
\* looked up under the guard; an absent key ends the command with NotFound
LookupAndDelete_lookup(c) ==
  /\ cpu[c].pc = "held"
  /\ cpu[c].cmd = "lookup_and_delete"
  /\ LET v == lmaps[cpu[c].map][cpu[c].key]
     IN IF v = None
          THEN /\ lad' = [done |-> TRUE, got |-> None, removed |-> None]
               /\ lockOwner' = DropGuard(c)
               /\ cpu' = [cpu EXCEPT ![c] = IdleCpu]
          ELSE /\ cpu' = [cpu EXCEPT ![c].pc = "looked", ![c].got = v]
               /\ UNCHANGED <<lad, lockOwner>>
  /\ midSeen' = (midSeen \/ Between(c))
  /\ UNCHANGED <<lmaps, spin>>
  /\ LockPartOnly

\* second half: the entry is removed under the same guard, which is then
\* dropped; the value looked up is what the command returns
LookupAndDelete_delete(c) ==
  /\ cpu[c].pc = "looked"
  /\ lad' = [done |-> TRUE, got |-> cpu[c].got,
             removed |-> lmaps[cpu[c].map][cpu[c].key]]
  /\ lmaps' = [lmaps EXCEPT ![cpu[c].map][cpu[c].key] = None]
  /\ midSeen' = (midSeen \/ Between(c))
  /\ lockOwner' = DropGuard(c)
  /\ cpu' = [cpu EXCEPT ![c] = IdleCpu]
  /\ UNCHANGED spin
  /\ LockPartOnly

NextLock ==
  \/ \E c \in Cpus, m \in LMaps, cmd \in MapCmds, k \in LockKeys : MapCommand(c, m, cmd, k)
  \/ \E c \in Cpus : BpfMap_unified_map(c)
  \/ \E c \in Cpus : SpinOnce(c)
  \/ \E c \in Cpus : SimpleCommand(c)
  \/ \E c \in Cpus : LookupAndDelete_lookup(c)
  \/ \E c \in Cpus : LookupAndDelete_delete(c)

C23_LockPerMapInstance ==
  /\ \A m \in LMaps :
       Cardinality({c \in Cpus : InCritical(c) /\ cpu[c].map = m}) <= 1
  /\ spin.done => spin.by = spin.map
  /\ \A c \in Cpus :
       (/\ cpu[c].pc = "want"
        /\ \A d \in Cpus : InCritical(d) => cpu[d].map # cpu[c].map)
       => unified_map_lock(lockOwner, cpu[c].map)

\* C23 witness: commands are in progress on two different maps at once,
\* after a CPU has had to spin for a map.
C23_Witness ==
  /\ \E c, d \in Cpus : /\ InCritical(c)
                        /\ InCritical(d)
                        /\ cpu[c].map # cpu[d].map
  /\ spin.done

(* ============ programs and the maps they pin (BPF_PROG_LOAD) =========== *)
PMaps == {"A", "B"}
ProgIds == {"p1", "p2"}
\* what an immediate-load instruction can name: the descriptor of a map, or a
\* descriptor that is not an open map
InsnFds == PMaps \cup {"bad"}
InsnSeqs == UNION {[1..n -> InsnFds] : n \in 0..MaxInsns}

NoProg == [state |-> "none", raw_file_ptr |-> <<>>]
NoLoad == [done |-> FALSE, bad |-> FALSE, res |-> "none"]

InitProg ==
  /\ mfd = [m \in PMaps |-> 0]
  /\ mrefs = [m \in PMaps |-> 0]
  /\ mstate = [m \in PMaps |-> "none"]
  /\ bpfProgs = [p \in ProgIds |-> NoProg]
  /\ lastLoad = NoLoad
  /\ loadPanic = FALSE

\* the number of times map m occurs in a list of raw pointers
RECURSIVE CountOf(_, _)
CountOf(ptrs, m) ==
  IF ptrs = <<>> THEN 0
  ELSE (IF Head(ptrs) = m THEN 1 ELSE 0) + CountOf(Tail(ptrs), m)

\* dropping the last strong reference destroys the map
AfterRelease(st, refs) == [m \in PMaps |-> IF st[m] = "live" /\ refs[m] <= 0
                                            THEN "destroyed" ELSE st[m]]

\* bpf_map_create: a new BpfMap behind one descriptor
bpf_map_create(m) ==
  /\ ~loadPanic
  /\ mstate[m] = "none"
  /\ mstate' = [mstate EXCEPT ![m] = "live"]
  /\ mfd' = [mfd EXCEPT ![m] = 1]
  /\ mrefs' = [mrefs EXCEPT ![m] = 1]
  /\ UNCHANGED <<bpfProgs, lastLoad, loadPanic>>
  /\ ProgPartOnly

\* dup of a map descriptor
DupMapFd(m) ==
  /\ ~loadPanic
  /\ mfd[m] > 0
  /\ mfd[m] < MaxFds
  /\ mfd' = [mfd EXCEPT ![m] = @ + 1]
  /\ mrefs' = [mrefs EXCEPT ![m] = @ + 1]
  /\ UNCHANGED <<mstate, bpfProgs, lastLoad, loadPanic>>
  /\ ProgPartOnly

\* close of a map descriptor
CloseMapFd(m) ==
  /\ ~loadPanic
  /\ mfd[m] > 0
  /\ mfd' = [mfd EXCEPT ![m] = @ - 1]
  /\ mrefs' = [mrefs EXCEPT ![m] = @ - 1]
  /\ mstate' = AfterRelease(mstate, mrefs')
  /\ UNCHANGED <<bpfProgs, lastLoad, loadPanic>>
  /\ ProgPartOnly

\* whether an instruction names an open map
Resolves(f) == f \in PMaps /\ mfd[f] > 0

\* EBPFPreProcessor::preprocess: the instructions are scanned in order; each
\* descriptor that resolves is turned into a raw strong pointer and recorded;
\* the first that does not resolve ends the scan with an error
RECURSIVE Preprocess(_, _)
Preprocess(insns, ptrs) ==
  IF insns = <<>> THEN [ok |-> TRUE, ptrs |-> ptrs]
  ELSE IF Resolves(Head(insns)) THEN Preprocess(Tail(insns), Append(ptrs, Head(insns)))
  ELSE [ok |-> FALSE, ptrs |-> ptrs]

BpfProg_drop_leaks(refs, ptrs) == refs

\* impl Drop for BpfProg: one Arc::from_raw and drop per recorded pointer
BpfProg_drop(refs, ptrs) == [m \in PMaps |-> refs[m] - CountOf(ptrs, m)]

Pinned(refs, ptrs) == [m \in PMaps |-> refs[m] + CountOf(ptrs, m)]

\* bpf_prog_load: preprocess(..).expect("preprocess failed"), then the
\* program is wrapped and given a descriptor; if no descriptor is free the
\* program is dropped again
bpf_prog_load(p, insns, fdFree) ==
  /\ ~loadPanic
  /\ bpfProgs[p].state = "none"
  /\ LET r == Preprocess(insns, <<>>)
         taken == Pinned(mrefs, r.ptrs)
         rec(res) == [done |-> TRUE, bad |-> ~r.ok, res |-> res]
     IN IF ~r.ok
          THEN /\ loadPanic' = TRUE
               /\ mrefs' = taken
               /\ lastLoad' = rec("panic")
               /\ UNCHANGED <<bpfProgs, mstate>>
        ELSE IF fdFree
          THEN /\ bpfProgs' = [bpfProgs EXCEPT ![p] = [state |-> "loaded",
                                                       raw_file_ptr |-> r.ptrs]]
               /\ mrefs' = taken
               /\ lastLoad' = rec("Ok")
               /\ UNCHANGED <<mstate, loadPanic>>
        ELSE /\ mrefs' = BpfProg_drop(taken, r.ptrs)
             /\ mstate' = AfterRelease(mstate, mrefs')
             /\ lastLoad' = rec("TooManyOpenFiles")
             /\ UNCHANGED <<bpfProgs, loadPanic>>
  /\ UNCHANGED mfd
  /\ ProgPartOnly

\* the last reference to the program goes away (its descriptor is closed and
\* no event holds it): the program is dropped
CloseProgFd(p) ==
  /\ ~loadPanic
  /\ bpfProgs[p].state = "loaded"
  /\ bpfProgs' = [bpfProgs EXCEPT ![p].state = "dropped"]
  /\ mrefs' = BpfProg_drop(mrefs, bpfProgs[p].raw_file_ptr)
  /\ mstate' = AfterRelease(mstate, mrefs')
  /\ UNCHANGED <<mfd, lastLoad, loadPanic>>
  /\ ProgPartOnly

NextProg ==
  \/ \E m \in PMaps : bpf_map_create(m)
  \/ \E m \in PMaps : DupMapFd(m)
  \/ \E m \in PMaps : CloseMapFd(m)
  \/ \E p \in ProgIds, insns \in InsnSeqs, fdFree \in BOOLEAN : bpf_prog_load(p, insns, fdFree)
  \/ \E p \in ProgIds : CloseProgFd(p)

\* the references the loaded programs hold on map m
PinsOn(m) ==
  LET n(p) == IF bpfProgs[p].state = "loaded" THEN CountOf(bpfProgs[p].raw_file_ptr, m) ELSE 0
  IN n("p1") + n("p2")

\* C24: a map pinned by a loaded program is live, whatever has been closed;
\* the strong count of every map is the number of its open descriptors plus
\* the pins of the loaded programs, so a dropped program has released each
\* of its pins once, and a map is destroyed exactly when nothing refers to it.
C24_MapOutlivesProgram ==
  ~loadPanic =>
    /\ \A p \in ProgIds : \A i \in 1..Len(bpfProgs[p].raw_file_ptr) :
         bpfProgs[p].state = "loaded" => mstate[bpfProgs[p].raw_file_ptr[i]] = "live"
    /\ \A m \in PMaps : mrefs[m] = mfd[m] + PinsOn(m)
    /\ \A m \in PMaps : mstate[m] = "destroyed" => mrefs[m] = 0
    /\ \A m \in PMaps : mstate[m] = "live" => mrefs[m] > 0

\* C24 witness: every descriptor of a map is closed while a loaded program
\* pins it, the map is live, and another program that pinned a map twice has
\* been dropped and that map is destroyed.
C24_Witness ==
  /\ \E p \in ProgIds, m \in PMaps :
       /\ bpfProgs[p].state = "loaded"
       /\ CountOf(bpfProgs[p].raw_file_ptr, m) > 0
       /\ mfd[m] = 0
       /\ mstate[m] = "live"
  /\ \E p \in ProgIds, m \in PMaps :
       /\ bpfProgs[p].state = "dropped"
       /\ CountOf(bpfProgs[p].raw_file_ptr, m) = 2
       /\ mstate[m] = "destroyed"

\* C29: a load whose instructions name a descriptor that is not an open map
\* is rejected with an error: the kernel goes on, no program is created and
\* no map reference is retained.
C29_BadMapFdRejected ==
  (lastLoad.done /\ lastLoad.bad) =>
    /\ ~loadPanic
    /\ lastLoad.res \notin {"Ok", "panic"}
    /\ \A m \in PMaps : mrefs[m] = mfd[m] + PinsOn(m)

(* ============== page permissions, trampolines and patches ============== *)
\* MappingFlags
READ == "R"
WRITE == "W"
EXECUTE == "X"
USER == "U"

\* the kernel pages: kernel text, the text of a loaded module, and the frame
\* of the trampoline
KPages == {"text", "module", "tramp"}
UProcs == {"P", "Q"}
\* the frame of the file's page, shared by every process that maps the file,
\* and the private frame a process gets when its copy is materialized
FileFrame == <<"file", "none">>
PrivateFrame(p) == <<"private", p>>
Frames == {FileFrame} \cup {PrivateFrame(p) : p \in UProcs}
PatchBytes == {"orig", "brk"}
SectionPerms == {{READ}, {READ, EXECUTE}, {READ, WRITE}}
UserProts == {{READ, USER}, {READ, EXECUTE, USER}, {READ, WRITE, EXECUTE, USER}}

NoPatch == [done |-> FALSE, kind |-> "none", before |-> {}, after |-> {}, wrote |-> TRUE]
NoUtramp == [state |-> "none", flags |-> {}, populated |-> FALSE]

InitPage ==
  /\ kflags = [g \in KPages |-> IF g = "text" THEN {READ, EXECUTE} ELSE {READ, WRITE}]
  /\ kbytes = [g \in KPages |-> "orig"]
  /\ ktramp = "free"
  /\ umap = [p \in UProcs |-> [frame |-> FileFrame, area |-> {READ, EXECUTE, USER},
                               pte |-> {READ, EXECUTE, USER}]]
  /\ fbytes = [f \in Frames |-> "orig"]
  /\ utramp = [p \in UProcs |-> NoUtramp]
  /\ patched = {}
  /\ lastPatch = NoPatch

\* section_perms_to_mapping_flags: WRITE is always added
section_perms_to_mapping_flags(perms) == perms \cup {WRITE}

\* KmodMem::change_perms: the pages of a module section get their flags
KmodMem_change_perms(perms) ==
  /\ kflags' = [kflags EXCEPT !["module"] = section_perms_to_mapping_flags(perms)]
  /\ UNCHANGED <<kbytes, ktramp, umap, fbytes, utramp, patched, lastPatch>>
  /\ PagePartOnly

\* set_writeable_for_address_kernel: the flags the page is left with
KernelFlagsAfterPatch(before) == {READ, EXECUTE}

\* set_writeable_for_address_kernel: protect to read, write and execute, run
\* the action, protect to read and execute
set_writeable_for_address_kernel(g, bytes) ==
  /\ g \in {"text", "module"}
  /\ EXECUTE \in kflags[g]
  /\ kflags' = [kflags EXCEPT ![g] = KernelFlagsAfterPatch(kflags[g])]
  /\ kbytes' = [kbytes EXCEPT ![g] = bytes]
  /\ lastPatch' = [done |-> TRUE, kind |-> "kernel", before |-> kflags[g],
                   after |-> kflags'[g], wrote |-> kbytes'[g] = bytes]
  /\ UNCHANGED <<ktramp, umap, fbytes, utramp, patched>>
  /\ PagePartOnly

\* mprotect of the page by the process itself; a page still shared with the
\* file stays read-only in the page table
UserProtect(p, prot) ==
  /\ umap' = [umap EXCEPT ![p].area = prot,
                          ![p].pte = IF umap[p].frame = FileFrame THEN prot \ {WRITE}
                                     ELSE prot]
  /\ UNCHANGED <<kflags, kbytes, ktramp, fbytes, utramp, patched, lastPatch>>
  /\ PagePartOnly

handle_page_fault_in_place(mp, fr, p) == [mp |-> mp, frames |-> fr]

\* the write fault on the page: a frame shared with the file is copied into
\* a private frame of the process before anything is written
handle_page_fault(mp, fr, p) ==
  IF mp[p].frame = FileFrame
    THEN [mp |-> [mp EXCEPT ![p].frame = PrivateFrame(p), ![p].pte = mp[p].area],
          frames |-> [fr EXCEPT ![PrivateFrame(p)] = fr[FileFrame]]]
    ELSE [mp |-> [mp EXCEPT ![p].pte = mp[p].area], frames |-> fr]

PatchTarget_stale(before, after, p) == before[p].frame

\* the frame the action writes: the one the page table of the target names
\* when it is queried, which is after the fault
PatchTarget(before, after, p) == after[p].frame

\* set_writeable_for_address_user: the area is made writable, the write fault
\* is taken, the flags of the page and of the area are put back, and the
\* action writes through the kernel's mapping of the frame the page table
\* now names
set_writeable_for_address_user(p, bytes) ==
  /\ LET flags == umap[p].area
         writable == [umap EXCEPT ![p].area = flags \cup {WRITE}]
         faulted == handle_page_fault(writable, fbytes, p)
         restored == [faulted.mp EXCEPT ![p].pte = flags, ![p].area = flags]
         frame == PatchTarget(umap, restored, p)
     IN /\ umap' = restored
        /\ fbytes' = [faulted.frames EXCEPT ![frame] = bytes]
        /\ lastPatch' = [done |-> TRUE, kind |-> "user", before |-> flags,
                         after |-> restored[p].area, wrote |-> fbytes'[frame] = bytes]
  /\ patched' = patched \cup {p}
  /\ UNCHANGED <<kflags, kbytes, ktramp, utramp>>
  /\ PagePartOnly

\* alloc_kernel_exec_memory: a frame is taken and its kernel mapping is made
\* readable, writable and executable
alloc_kernel_exec_memory ==
  /\ ktramp = "free"
  /\ ktramp' = "allocated"
  /\ kflags' = [kflags EXCEPT !["tramp"] = {READ, WRITE, EXECUTE}]
  /\ kbytes' = [kbytes EXCEPT !["tramp"] = "orig"]
  /\ UNCHANGED <<umap, fbytes, utramp, patched, lastPatch>>
  /\ PagePartOnly

\* the probe library writes the trampoline into the page it was given
PopulateKernelTrampoline ==
  /\ ktramp = "allocated"
  /\ ktramp' = "populated"
  /\ kbytes' = [kbytes EXCEPT !["tramp"] = "code"]
  /\ UNCHANGED <<kflags, umap, fbytes, utramp, patched, lastPatch>>
  /\ PagePartOnly

\* free_kernel_exec_memory: the mapping goes back to readable and writable
\* and the frame is released
free_kernel_exec_memory ==
  /\ ktramp # "free"
  /\ ktramp' = "free"
  /\ kflags' = [kflags EXCEPT !["tramp"] = {READ, WRITE}]
  /\ UNCHANGED <<kbytes, umap, fbytes, utramp, patched, lastPatch>>
  /\ PagePartOnly

\* alloc_user_exec_memory: the frame is written through the kernel's mapping
\* by the action and then mapped into the process, readable and executable
alloc_user_exec_memory(p) ==
  /\ utramp[p].state = "none"
  /\ utramp' = [utramp EXCEPT ![p] = [state |-> "mapped",
                                      flags |-> {READ, EXECUTE, USER},
                                      populated |-> TRUE]]
  /\ UNCHANGED <<kflags, kbytes, ktramp, umap, fbytes, patched, lastPatch>>
  /\ PagePartOnly

\* free_user_exec_memory: the page is unmapped and its frame released
free_user_exec_memory(p) ==
  /\ utramp[p].state = "mapped"
  /\ utramp' = [utramp EXCEPT ![p] = NoUtramp]
  /\ UNCHANGED <<kflags, kbytes, ktramp, umap, fbytes, patched, lastPatch>>
  /\ PagePartOnly

NextPage ==
  \/ \E perms \in SectionPerms : KmodMem_change_perms(perms)
  \/ \E g \in KPages, b \in PatchBytes : set_writeable_for_address_kernel(g, b)
  \/ \E p \in UProcs, prot \in UserProts : UserProtect(p, prot)
  \/ \E p \in UProcs, b \in PatchBytes : set_writeable_for_address_user(p, b)
  \/ alloc_kernel_exec_memory
  \/ PopulateKernelTrampoline
  \/ free_kernel_exec_memory
  \/ \E p \in UProcs : alloc_user_exec_memory(p)
  \/ \E p \in UProcs : free_user_exec_memory(p)

WritableAndExecutable(flags) == WRITE \in flags /\ EXECUTE \in flags

\* C25: trampoline memory is never writable and executable at once, in the
\* kernel and in a process, and a trampoline page mapped into a process has
\* been populated before.
C25_TrampolineNeverWritableExecutable ==
  /\ ~WritableAndExecutable(kflags["tramp"])
  /\ \A p \in UProcs : ~WritableAndExecutable(utramp[p].flags)
  /\ \A p \in UProcs : utramp[p].state = "mapped" => utramp[p].populated

\* C26: after set_writeable_for_address has returned, for a kernel address
\* and for a user address, the flags of the page are the flags it had before
\* the call, and the bytes of the action are written.
C26_PatchRestoresFlags ==
  lastPatch.done => (lastPatch.after = lastPatch.before /\ lastPatch.wrote)

\* the user half of C26 holds
UserPatchRestoresFlags ==
  (lastPatch.done /\ lastPatch.kind = "user") =>
    (lastPatch.after = lastPatch.before /\ lastPatch.wrote)

\* C27: a patch written into a process goes to a private copy of the page:
\* the frame of the file holds its original bytes, and so does the page of
\* every process no patch was written into.
C27_PatchOnlyInPrivateCopy ==
  /\ fbytes[FileFrame] = "orig"
  /\ \A q \in UProcs \ patched : fbytes[umap[q].frame] = "orig"
  /\ \A p \in patched : umap[p].frame = PrivateFrame(p)

\* C27 witness: P's page holds the breakpoint in P's private frame while Q
\* still maps the frame of the file.
C27_Witness ==
  /\ patched = {"P"}
  /\ fbytes[PrivateFrame("P")] = "brk"
  /\ umap["P"].frame = PrivateFrame("P")
  /\ umap["Q"].frame = FileFrame
  /\ lastPatch.kind = "user"

(* ============ the dispatch of bpf() and of perf_event_open ============= *)
\* the commands bpf() carries out
ImplementedCmds == {"BPF_MAP_CREATE", "BPF_MAP_UPDATE_ELEM", "BPF_MAP_LOOKUP_ELEM",
                    "BPF_MAP_GET_NEXT_KEY", "BPF_MAP_DELETE_ELEM",
                    "BPF_MAP_LOOKUP_AND_DELETE_ELEM", "BPF_MAP_LOOKUP_BATCH",
                    "BPF_MAP_FREEZE", "BPF_RAW_TRACEPOINT_OPEN", "BPF_PROG_LOAD"}
\* the commands bpf() names as not implemented
RefusedCmds == {"BPF_BTF_LOAD", "BPF_LINK_CREATE", "BPF_OBJ_GET_INFO_BY_FD"}
\* two of the remaining values of bpf_cmd
OtherCmds == {"BPF_OBJ_PIN", "BPF_PROG_ATTACH"}
bpf_cmd == ImplementedCmds \cup RefusedCmds \cup OtherCmds
\* what user space can pass as the command: a value of bpf_cmd, or a number
\* that is none
CmdNumbers == bpf_cmd \cup {"no_command"}

\* the event types perf_event_open is given
ImplementedTypes == {"PERF_TYPE_MAX", "PERF_TYPE_SOFTWARE"}
perf_type_id == ImplementedTypes \cup {"PERF_TYPE_HARDWARE", "PERF_TYPE_TRACEPOINT"}
\* an attribute that PerfProbeArgs::try_from_perf_attr refuses
PerfAttrs == perf_type_id \cup {"bad_attr"}

\* the outcome of a command that is carried out: done, or one of its errors
CarriedOut == {"Ok", "InvalidInput", "NotFound"}

InitSys ==
  /\ sysLog = <<>>
  /\ sysPanic = FALSE

\* bpf: the match over the command
bpf(cmd, outcome) ==
  IF cmd \in ImplementedCmds THEN outcome
  ELSE IF cmd \in RefusedCmds THEN "OperationNotSupported"
  ELSE "panic"

\* sys_bpf: the number is converted to a bpf_cmd first
sys_bpf(cmd, outcome) ==
  /\ ~sysPanic
  /\ Len(sysLog) < MaxSysCalls
  /\ LET res == IF cmd \notin bpf_cmd THEN "InvalidInput" ELSE bpf(cmd, outcome)
     IN /\ sysLog' = Append(sysLog, [call |-> "bpf", arg |-> cmd, res |-> res])
        /\ sysPanic' = (res = "panic")
  /\ SysPartOnly

\* perf_event_open: the arguments are converted with unwrap, then the match
\* over the type
perf_event_open(attr, outcome) ==
  /\ ~sysPanic
  /\ Len(sysLog) < MaxSysCalls
  /\ LET res == IF attr \notin perf_type_id THEN "panic"
                ELSE IF attr \in ImplementedTypes THEN outcome
                ELSE "panic"
     IN /\ sysLog' = Append(sysLog, [call |-> "perf_event_open", arg |-> attr,
                                     res |-> res])
        /\ sysPanic' = (res = "panic")
  /\ SysPartOnly

NextSys ==
  \/ \E cmd \in CmdNumbers, o \in CarriedOut : sys_bpf(cmd, o)
  \/ \E attr \in PerfAttrs, o \in CarriedOut : perf_event_open(attr, o)

\* C28: every bpf command and every perf_event_open event type returns a
\* result: a kind that is not implemented gives OperationNotSupported, a
\* command number that is none gives InvalidInput, and no argument makes the
\* kernel panic.
C28_TypedResults ==
  /\ ~sysPanic
  /\ \A i \in 1..Len(sysLog) :
       LET c == sysLog[i]
       IN /\ c.res # "panic"
          /\ (c.call = "bpf" /\ c.arg \in bpf_cmd \ ImplementedCmds)
               => c.res = "OperationNotSupported"
          /\ (c.call = "bpf" /\ c.arg \notin bpf_cmd) => c.res = "InvalidInput"
          /\ (c.call = "perf_event_open" /\ c.arg \in perf_type_id \ ImplementedTypes)
               => c.res = "OperationNotSupported"

\* the part of C28 that holds: a number that is no command gives
\* InvalidInput, and the three commands bpf() names give OperationNotSupported
BpfRefusalsTyped ==
  \A i \in 1..Len(sysLog) :
    LET c == sysLog[i]
    IN /\ (c.call = "bpf" /\ c.arg \notin bpf_cmd) => c.res = "InvalidInput"
       /\ (c.call = "bpf" /\ c.arg \in RefusedCmds) => c.res = "OperationNotSupported"


OutPartOnly ==
  UNCHANGED <<probeVars, retVars, mapVars, traceVars, kperfVars, bpfVars, pipeVars,
              ioctlVars, lockVars, progVars, pageVars, sysVars, nestVars, fbVars,
              rdVars, oopsVars, seqVars, wdVars>>

(* ========== the sample ring of a BPF-output event and its pages ======== *)
OutSamples == {"a", "b"}
RunIds == 1..MaxRuns
NoOut == [done |-> FALSE, full |-> FALSE, before |-> <<>>, data |-> "a",
          woke |-> FALSE, res |-> "none"]

InitOut ==
  /\ outEv = [open |-> TRUE, enabled |-> FALSE, phys_addr |-> None]
  /\ outRing = <<>>
  /\ nextRun = 1
  /\ outFreed = {}
  /\ outMapped = {}
  /\ lastOut = NoOut

\* the page runs handed out so far
AllocatedRuns == 1..(nextRun - 1)

\* BpfPerfEvent::write_event on a ring of RingCapacity records: a full ring
\* gives up its oldest record for the new one, and the write succeeds
LibRingWrite(r, data) ==
  IF Len(r) < RingCapacity THEN Append(r, data) ELSE Append(Tail(r), data)

\* BpfPerfEvent::do_mmap: the ring starts empty in the new pages
LibDoMmap(r) == <<>>

\* a mutation of InnerWrite: the sample is written only while room is left
InnerWrite_room(phys_addr, r, data) ==
  IF phys_addr = None \/ Len(r) >= RingCapacity THEN r ELSE LibRingWrite(r, data)

\* BpfPerfEventWrapper::write_event up to the inner write: nothing is
\* written before the first mmap, afterwards the inner event gets the sample
InnerWrite(phys_addr, r, data) ==
  IF phys_addr = None THEN r ELSE LibRingWrite(r, data)

\* perf_event_output, the helper behind bpf_perf_event_output: the file of
\* the descriptor is looked up, the event is locked and write_event is
\* called; write_event returns Ok with or without a mapping, and wakes the
\* PollSet when the event is enabled
perf_event_output(data) ==
  /\ IF ~outEv.open
       THEN /\ lastOut' = [NoOut EXCEPT !.done = TRUE, !.before = outRing,
                                        !.data = data, !.res = "BadFileDescriptor"]
            /\ UNCHANGED outRing
       ELSE /\ outRing' = InnerWrite(outEv.phys_addr, outRing, data)
            /\ lastOut' = [done |-> TRUE,
                           full |-> outEv.phys_addr # None /\ Len(outRing) = RingCapacity,
                           before |-> outRing, data |-> data,
                           woke |-> outEv.phys_addr # None /\ outEv.enabled,
                           res |-> "Ok"]
  /\ UNCHANGED <<outEv, nextRun, outFreed, outMapped>>
  /\ OutPartOnly

\* PerfEventOps::enable and disable of the event, through ioctl
BpfOutput_set_enabled(on) ==
  /\ outEv.open
  /\ outEv' = [outEv EXCEPT !.enabled = on]
  /\ lastOut' = NoOut
  /\ UNCHANGED <<outRing, nextRun, outFreed, outMapped>>
  /\ OutPartOnly

\* BpfPerfEventWrapper::mmap: a run of frames is allocated and mapped
\* linearly into the caller's address space, the inner event is armed to
\* write there, and phys_addr is set to the new run
BpfOutput_mmap ==
  /\ outEv.open
  /\ nextRun <= MaxRuns
  /\ nextRun' = nextRun + 1
  /\ outMapped' = outMapped \cup {nextRun}
  /\ outRing' = LibDoMmap(outRing)
  /\ outEv' = [outEv EXCEPT !.phys_addr = Some(nextRun)]
  /\ lastOut' = NoOut
  /\ UNCHANGED outFreed
  /\ OutPartOnly

\* munmap of a linear mapping: the pages leave the address space and stay
\* allocated, for the mapping does not own them
OutMunmap(run) ==
  /\ run \in outMapped
  /\ outMapped' = outMapped \ {run}
  /\ lastOut' = NoOut
  /\ UNCHANGED <<outEv, outRing, nextRun, outFreed>>
  /\ OutPartOnly

\* user space takes the oldest sample out of the mapped ring
OutConsume ==
  /\ outEv.open
  /\ outRing # <<>>
  /\ outEv.phys_addr \subseteq outMapped
  /\ outRing' = Tail(outRing)
  /\ lastOut' = NoOut
  /\ UNCHANGED <<outEv, nextRun, outFreed, outMapped>>
  /\ OutPartOnly

\* Drop for BpfPerfEventWrapper, run when the last descriptor is closed: the
\* run phys_addr names is given back
BpfPerfEventWrapper_drop ==
  /\ outEv.open
  /\ outEv' = [outEv EXCEPT !.open = FALSE]
  /\ outFreed' = outFreed \cup outEv.phys_addr
  /\ outRing' = <<>>
  /\ lastOut' = NoOut
  /\ UNCHANGED <<nextRun, outMapped>>
  /\ OutPartOnly

NextOut ==
  \/ \E d \in OutSamples : perf_event_output(d)
  \/ \E on \in BOOLEAN : BpfOutput_set_enabled(on)
  \/ BpfOutput_mmap
  \/ \E r \in RunIds : OutMunmap(r)
  \/ OutConsume
  \/ BpfPerfEventWrapper_drop

C37_PagesFreedWhenUnmapped ==
  /\ outFreed \cap outMapped = {}
  /\ ~outEv.open => AllocatedRuns \subseteq outFreed

\* the part of C37 that holds: nothing is freed while the event is open, and
\* only a run that was allocated is ever freed
FreedOnlyAtDrop ==
  /\ outEv.open => outFreed = {}
  /\ outFreed \subseteq AllocatedRuns


NestPartOnly ==
  UNCHANGED <<probeVars, retVars, mapVars, traceVars, kperfVars, bpfVars, pipeVars,
              ioctlVars, lockVars, progVars, pageVars, sysVars, outVars, fbVars,
              rdVars, oopsVars, seqVars, wdVars>>

(* ===== KPROBE_MANAGER under traps that nest on the CPU that holds it ==== *)
\* kernel text a probe can be placed at: a traced site, and functions that
\* the code running under KPROBE_MANAGER calls
KAddrs == {"site", "helper", "lookup"}
CodeUnderLock == {"helper", "lookup"}
LockedCalls == {"register_kprobe", "unregister_kprobe", "run_all_kprobe"}

InitNest ==
  /\ nestProbed = {}
  /\ nestStack = <<>>
  /\ mgrHolder = 0

Top == nestStack[Len(nestStack)]
Enter(call, a) == Append(nestStack, [call |-> call, addr |-> a, pc |-> "lock"])
SetTopPc(pc) == [nestStack EXCEPT ![Len(nestStack)].pc = pc]
Pop == SubSeq(nestStack, 1, Len(nestStack) - 1)

\* a task calls register_kprobe for the address a
Call_register_kprobe(a) ==
  /\ nestStack = <<>>
  /\ a \notin nestProbed
  /\ nestStack' = Enter("register_kprobe", a)
  /\ UNCHANGED <<nestProbed, mgrHolder>>
  /\ NestPartOnly

\* a task calls unregister_kprobe for the probe at a
Call_unregister_kprobe(a) ==
  /\ nestStack = <<>>
  /\ a \in nestProbed
  /\ nestStack' = Enter("unregister_kprobe", a)
  /\ UNCHANGED <<nestProbed, mgrHolder>>
  /\ NestPartOnly

\* the breakpoint at a probed address traps into run_all_kprobe, on top of
\* whatever the CPU was running
BreakpointTrap(a) ==
  /\ a \in nestProbed
  /\ Len(nestStack) < MaxNest
  /\ IF nestStack = <<>> THEN TRUE ELSE Top.pc = "held" /\ a \in CodeUnderLock
  /\ nestStack' = Enter("run_all_kprobe", a)
  /\ UNCHANGED <<nestProbed, mgrHolder>>
  /\ NestPartOnly

\* KSpinNoPreempt::lock at the head of the three functions: the lock is
\* taken when it is free; otherwise the context spins, and it spins for as
\* long as the holder, which it keeps from running, does not release
KPROBE_MANAGER_lock ==
  /\ nestStack # <<>>
  /\ Top.pc = "lock"
  /\ IF mgrHolder = 0
       THEN /\ mgrHolder' = Len(nestStack)
            /\ nestStack' = SetTopPc("held")
       ELSE /\ nestStack' = SetTopPc("spin")
            /\ UNCHANGED mgrHolder
  /\ UNCHANGED nestProbed
  /\ NestPartOnly

\* the function returns: the library call under the lock has registered or
\* unregistered the probe or run the handlers, and the guard is dropped
ReturnUnlocked ==
  /\ nestStack # <<>>
  /\ Top.pc = "held"
  /\ nestProbed' = CASE Top.call = "register_kprobe" -> nestProbed \cup {Top.addr}
                     [] Top.call = "unregister_kprobe" -> nestProbed \ {Top.addr}
                     [] OTHER -> nestProbed
  /\ mgrHolder' = 0
  /\ nestStack' = Pop
  /\ NestPartOnly

NextNest ==
  \/ \E a \in KAddrs : Call_register_kprobe(a)
  \/ \E a \in KAddrs : Call_unregister_kprobe(a)
  \/ \E a \in KAddrs : BreakpointTrap(a)
  \/ KPROBE_MANAGER_lock
  \/ ReturnUnlocked

\* run_all_kprobe spins on KPROBE_MANAGER above the context that holds it
SpinsAboveHolder ==
  /\ nestStack # <<>>
  /\ Top.call = "run_all_kprobe" /\ Top.pc = "spin"
  /\ mgrHolder # 0 /\ mgrHolder < Len(nestStack)

\* C33: probe dispatch never waits for a lock that cannot be released: in
\* no state does run_all_kprobe spin on KPROBE_MANAGER while a context it
\* interrupted on the same CPU holds that lock.
C33_DispatchNeverSpinsOnHeldLock == ~SpinsAboveHolder

\* the part of C33 that holds: at most one context holds the lock, and a
\* trap taken outside the three locked functions gets the lock at once
LockHeldByOneContext ==
  /\ mgrHolder \in 0..Len(nestStack)
  /\ \A i \in 1..Len(nestStack) : (nestStack[i].pc = "held") = (i = mgrHolder)
  /\ (Len(nestStack) = 1) => Top.pc # "spin"


FbPartOnly ==
  UNCHANGED <<probeVars, retVars, mapVars, traceVars, kperfVars, bpfVars, pipeVars,
              ioctlVars, lockVars, progVars, pageVars, sysVars, outVars, nestVars,
              rdVars, oopsVars, seqVars, wdVars>>

(* ======= the fallback stack of return-probe instances (no task) ======== *)
\* the two implementations of KprobeAuxiliaryOps: the one of the api crate,
\* used by the kernel probes, and the one of the core crate, used by uprobes
Impls == {"api", "core"}
\* what current_may_uninit returns: nothing, or a task that is a user thread
Contexts == {"none", "thread"}
NoFb == [op |-> "none", impl |-> "api", ctx |-> "none", want |-> 0, got |-> 0, res |-> "none"]

InitFb ==
  /\ API_INSERT_INSTANCE = <<>>
  /\ API_POP_INSTANCE = <<>>
  /\ CORE_INSTANCE = <<>>
  /\ fbProc = [i \in Impls |-> <<>>]
  /\ fbPending = [i \in Impls |-> [c \in Contexts |-> <<>>]]
  /\ fbNext = 1
  /\ fbLast = NoFb

Last(s) == s[Len(s)]
Front(s) == SubSeq(s, 1, Len(s) - 1)
FbPanicked == fbLast.res = "panic"

\* the stack the pop of an implementation works on without a current task
PopFallback(impl) == IF impl = "api" THEN API_POP_INSTANCE ELSE CORE_INSTANCE

\* insert_kretprobe_instance_to_task of either implementation: the instance
\* goes on the stack of the current process, or without a task on the static
\* the function names
FbInsert(impl, ctx) ==
  /\ ~FbPanicked
  /\ fbNext <= MaxCalls
  /\ Len(fbPending[impl][ctx]) < MaxDepth
  /\ fbNext' = fbNext + 1
  /\ IF ctx = "thread"
       THEN /\ fbProc' = [fbProc EXCEPT ![impl] = Append(@, fbNext)]
            /\ UNCHANGED <<API_INSERT_INSTANCE, CORE_INSTANCE>>
       ELSE /\ API_INSERT_INSTANCE' =
                 IF impl = "api" THEN Append(API_INSERT_INSTANCE, fbNext)
                 ELSE API_INSERT_INSTANCE
            /\ CORE_INSTANCE' =
                 IF impl = "core" THEN Append(CORE_INSTANCE, fbNext) ELSE CORE_INSTANCE
            /\ UNCHANGED fbProc
  /\ fbPending' = [fbPending EXCEPT ![impl][ctx] = Append(@, fbNext)]
  /\ fbLast' = [op |-> "push", impl |-> impl, ctx |-> ctx, want |-> fbNext,
                got |-> fbNext, res |-> "Ok"]
  /\ UNCHANGED API_POP_INSTANCE
  /\ FbPartOnly

\* pop_kretprobe_instance_from_task of either implementation, for the return
\* of an activation whose entry pushed an instance in the same context:
\* pop().unwrap() on the stack of the current process, or without a task on
\* the static the function names
FbPop(impl, ctx) ==
  /\ ~FbPanicked
  /\ fbPending[impl][ctx] # <<>>
  /\ LET stack == IF ctx = "thread" THEN fbProc[impl] ELSE PopFallback(impl)
         want == Last(fbPending[impl][ctx])
     IN IF stack = <<>>
          THEN /\ fbLast' = [op |-> "pop", impl |-> impl, ctx |-> ctx, want |-> want,
                             got |-> 0, res |-> "panic"]
               /\ UNCHANGED <<API_POP_INSTANCE, CORE_INSTANCE, fbProc, fbPending>>
          ELSE /\ fbLast' = [op |-> "pop", impl |-> impl, ctx |-> ctx, want |-> want,
                             got |-> Last(stack), res |-> "Ok"]
               /\ fbPending' = [fbPending EXCEPT ![impl][ctx] = Front(@)]
               /\ IF ctx = "thread"
                    THEN /\ fbProc' = [fbProc EXCEPT ![impl] = Front(@)]
                         /\ UNCHANGED <<API_POP_INSTANCE, CORE_INSTANCE>>
                    ELSE /\ API_POP_INSTANCE' =
                              IF impl = "api" THEN Front(API_POP_INSTANCE)
                              ELSE API_POP_INSTANCE
                         /\ CORE_INSTANCE' =
                              IF impl = "core" THEN Front(CORE_INSTANCE) ELSE CORE_INSTANCE
                         /\ UNCHANGED fbProc
  /\ UNCHANGED <<API_INSERT_INSTANCE, fbNext>>
  /\ FbPartOnly

NextFb ==
  \/ \E i \in Impls, c \in Contexts : FbInsert(i, c)
  \/ \E i \in Impls, c \in Contexts : FbPop(i, c)

\* C35: without a current task the instance a push stored is the one the
\* next unmatched pop of that context returns: push and pop work on the same
\* fallback stack, and a pop that follows its push never finds it empty.
C35_FallbackPopReturnsPush ==
  (fbLast.op = "pop" /\ fbLast.ctx = "none")
    => (fbLast.res = "Ok" /\ fbLast.got = fbLast.want)

\* the part of C35 that holds: the implementation of the core crate, and
\* either implementation under a current user thread, pop what was pushed
CoreFallbackPopReturnsPush ==
  (fbLast.op = "pop" /\ (fbLast.impl = "core" \/ fbLast.ctx = "thread"))
    => (fbLast.res = "Ok" /\ fbLast.got = fbLast.want)


RdPartOnly ==
  UNCHANGED <<probeVars, retVars, mapVars, traceVars, kperfVars, bpfVars, pipeVars,
              ioctlVars, lockVars, progVars, pageVars, sysVars, outVars, nestVars,
              fbVars, oopsVars, seqVars, wdVars>>

(* ====== TracePipeFile::read into a buffer of a given length ============ *)
RecLens == 1..MaxRecLen
BufLens == 1..MaxRecLen
IdleRd == [pc |-> "idle", buf |-> 0, sig |-> FALSE, res |-> "none", n |-> 0,
           before |-> <<>>, left |-> <<>>, respun |-> FALSE]

InitRd ==
  /\ rdPipe = <<>>
  /\ rd = IdleRd

RECURSIVE SumSeq(_)
SumSeq(s) == IF s = <<>> THEN 0 ELSE Head(s) + SumSeq(Tail(s))

\* common_trace_pipe_read for a buffer with `room` bytes left: the first
\* record is peeked and formatted; when it does not fit the loop ends,
\* otherwise it is copied and popped and the loop goes on
RECURSIVE common_trace_pipe_read_buf(_, _)
common_trace_pipe_read_buf(trace_buf, room) ==
  IF trace_buf = <<>> \/ Head(trace_buf) > room
    THEN [copy_len |-> 0, left |-> trace_buf]
    ELSE LET r == common_trace_pipe_read_buf(Tail(trace_buf), room - Head(trace_buf))
         IN [copy_len |-> Head(trace_buf) + r.copy_len, left |-> r.left]

\* a traced site pushes a record of the given formatted length
RdPush(len) ==
  /\ rdPipe' = LibPushEvent(rdPipe, len)
  /\ rd' = [rd EXCEPT !.respun = FALSE]
  /\ RdPartOnly

\* read is called on the trace pipe with a buffer of buf_len bytes
RdCall(buf_len) ==
  /\ rd.pc = "idle"
  /\ rd' = [IdleRd EXCEPT !.pc = "loop", !.buf = buf_len, !.sig = rd.sig]
  /\ UNCHANGED rdPipe
  /\ RdPartOnly

\* the top of the loop of read: the pipe is locked and read into the
\* buffer; a read of some bytes ends the call, a read of none goes to wait
RdLoop ==
  /\ rd.pc = "loop"
  /\ LET r == common_trace_pipe_read_buf(rdPipe, rd.buf)
     IN IF r.copy_len # 0
          THEN /\ rdPipe' = r.left
               /\ rd' = [rd EXCEPT !.pc = "returned", !.res = "Ok", !.n = r.copy_len,
                                   !.before = rdPipe, !.left = r.left, !.respun = FALSE]
          ELSE /\ rd' = [rd EXCEPT !.pc = "wait", !.before = rdPipe, !.left = r.left,
                                   !.respun = FALSE]
               /\ UNCHANGED rdPipe
  /\ RdPartOnly

\* the wait of read: a pending signal ends the call with an error; a
\* readable pipe ends the wait at once and the loop goes round; otherwise
\* the waker is registered and the task suspends
RdWait ==
  /\ rd.pc = "wait"
  /\ rd' = IF rd.sig THEN [rd EXCEPT !.pc = "returned", !.res = "Interrupted"]
           ELSE IF rdPipe # <<>> THEN [rd EXCEPT !.pc = "loop", !.respun = (rdPipe = rd.before)]
           ELSE [rd EXCEPT !.pc = "suspended"]
  /\ UNCHANGED rdPipe
  /\ RdPartOnly

\* the suspended reader is woken (child exit or signal) and polls again
RdWake(signal) ==
  /\ rd.pc = "suspended"
  /\ rd' = [rd EXCEPT !.pc = "wait", !.sig = @ \/ signal]
  /\ UNCHANGED rdPipe
  /\ RdPartOnly

\* a signal becomes pending for a reader that is not suspended
RdSignal ==
  /\ rd.pc \in {"loop", "wait"}
  /\ ~rd.sig
  /\ rd' = [rd EXCEPT !.sig = TRUE]
  /\ UNCHANGED rdPipe
  /\ RdPartOnly

\* read has returned to user space, where a pending signal is handled
RdReturn ==
  /\ rd.pc = "returned"
  /\ rd' = IdleRd
  /\ UNCHANGED rdPipe
  /\ RdPartOnly

NextRd ==
  \/ \E l \in RecLens : RdPush(l)
  \/ \E b \in BufLens : RdCall(b)
  \/ RdLoop
  \/ RdWait
  \/ \E s \in BOOLEAN : RdWake(s)
  \/ RdSignal
  \/ RdReturn

\* C36: every iteration of the loop of read makes progress: it returns a
\* positive count, or suspends the task, or returns the interruption error;
\* it never comes round to the top with the pipe as it found it, also when
\* the first record is longer than the caller's buffer.
C36_ReadIterationProgresses == ~rd.respun

\* the part of C36 that holds: a read returns a positive count that is the
\* length of the records it took from the head of the pipe, and a record
\* that does not fit stays in the pipe
RecordThatDoesNotFitStays ==
  /\ (rd.pc = "returned" /\ rd.res = "Ok") =>
       /\ rd.n > 0 /\ rd.n <= rd.buf
       /\ \E k \in 1..Len(rd.before) :
            /\ rd.n = SumSeq(SubSeq(rd.before, 1, k))
            /\ rd.left = SubSeq(rd.before, k + 1, Len(rd.before))
  /\ rd.respun => (rdPipe = rd.before /\ Head(rdPipe) > rd.buf)


OopsPartOnly ==
  UNCHANGED <<probeVars, retVars, mapVars, traceVars, kperfVars, bpfVars, pipeVars,
              ioctlVars, lockVars, progVars, pageVars, sysVars, outVars, nestVars,
              fbVars, rdVars, seqVars, wdVars>>

(* ================= panics caught as kernel oops ======================== *)
CatchFns == {"catch_panics_as_oops", "kernel_catch_unwind"}

InitOops ==
  /\ RECURSION = FALSE
  /\ OOPS_COUNT = 0
  /\ systemOff = FALSE
  /\ catchLog = <<>>

\* panic_handler with `recursion` the value of RECURSION: RECURSION is set
\* and its old value decides: when it was clear the panic is unwound to the
\* enclosing catch_unwind, otherwise the system is powered off
panic_handler(recursion) ==
  [RECURSION |-> TRUE, unwinds |-> ~recursion]

\* what catch_unwind(f) gives: Ok when f returns, Err when f panics and the
\* handler unwinds, and no return when the handler powers the system off
catch_unwind(panics, recursion) ==
  IF ~panics THEN "Ok"
  ELSE IF panic_handler(recursion).unwinds THEN "Err" ELSE "off"

\* catch_panics_as_oops(f): the closure is run under catch_unwind; a caught
\* panic is counted, and past MAX_OOPS_COUNT the system is powered off
catch_panics_as_oops(panics) ==
  /\ ~systemOff
  /\ Len(catchLog) < MaxCatch
  /\ LET result == catch_unwind(panics, RECURSION)
         count == OOPS_COUNT
         res == IF result = "Err" /\ count >= MAX_OOPS_COUNT THEN "off" ELSE result
     IN /\ RECURSION' = IF panics THEN panic_handler(RECURSION).RECURSION ELSE RECURSION
        /\ OOPS_COUNT' = IF result = "Err" THEN count + 1 ELSE count
        /\ systemOff' = (res = "off")
        /\ catchLog' = Append(catchLog, [fn |-> "catch_panics_as_oops",
                                         panics |-> panics, res |-> res])
  /\ OopsPartOnly

\* kernel_catch_unwind(f): the closure is run under catch_unwind and a
\* caught panic becomes EAGAIN
kernel_catch_unwind(panics) ==
  /\ ~systemOff
  /\ Len(catchLog) < MaxCatch
  /\ LET result == catch_unwind(panics, RECURSION)
     IN /\ RECURSION' = IF panics THEN panic_handler(RECURSION).RECURSION ELSE RECURSION
        /\ systemOff' = (result = "off")
        /\ catchLog' = Append(catchLog, [fn |-> "kernel_catch_unwind",
                                         panics |-> panics, res |-> result])
  /\ UNCHANGED OOPS_COUNT
  /\ OopsPartOnly

NextOops ==
  \/ \E p \in BOOLEAN : catch_panics_as_oops(p)
  \/ \E p \in BOOLEAN : kernel_catch_unwind(p)

\* the panics catch_panics_as_oops had caught before the i-th call
OopsBefore(i) ==
  Cardinality({j \in 1..(i - 1) : /\ catchLog[j].fn = "catch_panics_as_oops"
                                   /\ catchLog[j].res = "Err"})

\* C38: each call of catch_panics_as_oops gives Ok when its closure returns
\* and Err when it panics, the second and later panics like the first, for
\* as long as fewer than MAX_OOPS_COUNT panics were caught; until then the
\* system is not powered off.
C38_EveryPanicCaught ==
  \A i \in 1..Len(catchLog) :
    (catchLog[i].fn = "catch_panics_as_oops" /\ OopsBefore(i) < MAX_OOPS_COUNT)
      => catchLog[i].res = (IF catchLog[i].panics THEN "Err" ELSE "Ok")

\* the part of C38 that holds: a closure that returns gives Ok, and the
\* first panic after boot is caught and gives Err
FirstPanicCaught ==
  \A i \in 1..Len(catchLog) :
    /\ ~catchLog[i].panics => catchLog[i].res = "Ok"
    /\ (catchLog[i].panics /\ \A j \in 1..(i - 1) : ~catchLog[j].panics)
         => catchLog[i].res = "Err"


SeqPartOnly ==
  UNCHANGED <<probeVars, retVars, mapVars, traceVars, kperfVars, bpfVars, pipeVars,
              ioctlVars, lockVars, progVars, pageVars, sysVars, outVars, nestVars,
              fbVars, rdVars, oopsVars, wdVars>>

(* ================= SeqFile::read over an iterator ====================== *)
ItemIds == 1..MaxItems
ShowLens == 0..MaxShow
OutLens == 0..MaxOut
\* the iterators: up to MaxItems items, each with the length of its show()
RECURSIVE SeqsUpTo(_, _)
SeqsUpTo(S, n) ==
  IF n = 0 THEN {<<>>}
  ELSE LET shorter == SeqsUpTo(S, n - 1)
       IN shorter \cup {Append(s, x) : s \in {t \in shorter : Len(t) = n - 1}, x \in S}
Iterators == SeqsUpTo(ShowLens, MaxItems)

\* show(item): the bytes of item k, told apart by item and position
Show(items, k) == [j \in 1..items[k] |-> <<k, j>>]
\* the output of one large read: the show() outputs in the order of the items
RECURSIVE ShowFrom(_, _)
ShowFrom(items, k) ==
  IF k > Len(items) THEN <<>> ELSE Show(items, k) \o ShowFrom(items, k + 1)
WholeStream(items) == ShowFrom(items, 1)
IsPrefix(s, t) == Len(s) <= Len(t) /\ SubSeq(t, 1, Len(s)) = s

NewSeqFile == [buf |-> <<>>, buf_read_pos |-> 0, last_file_offset |-> 0, is_eof |-> FALSE]
NoCall == [pc |-> "closed", out_len |-> 0, total |-> 0]
NoRead == [done |-> FALSE, len |-> 0, res |-> "none", n |-> 0]

InitSeq ==
  /\ sfItems = <<>>
  /\ sfIndex = 0
  /\ sfile = NewSeqFile
  /\ sfCall = NoCall
  /\ sfOut = <<>>
  /\ sfFetched = [k \in ItemIds |-> 0]
  /\ lastRead = NoRead

\* SeqFile::reset
SeqFile_reset(f) == NewSeqFile
\* SeqFile::has_started
has_started(f) == f.is_eof \/ f.last_file_offset > 0 \/ f.buf # <<>>

\* the file is opened over an iterator (SeqFile::new)
SeqFile_new(items) ==
  /\ sfCall.pc = "closed"
  /\ sfItems' = items
  /\ sfCall' = [NoCall EXCEPT !.pc = "idle"]
  /\ UNCHANGED <<sfIndex, sfile, sfOut, sfFetched, lastRead>>
  /\ SeqPartOnly

\* SeqFile::read up to its loop, called with an output of out_len bytes at
\* the offset that is the number of bytes returned so far: offset 0 resets
\* the file, an offset that is not last_file_offset is refused
SeqFile_read(out_len) ==
  /\ sfCall.pc = "idle"
  /\ LET offset == Len(sfOut)
     IN IF offset = 0
          THEN /\ sfile' = SeqFile_reset(sfile)
               /\ sfFetched' = [k \in ItemIds |-> 0]
               /\ sfCall' = [pc |-> "loop", out_len |-> out_len, total |-> 0]
               /\ UNCHANGED lastRead
          ELSE IF offset # sfile.last_file_offset
            THEN /\ sfile' = IF offset < sfile.last_file_offset
                               THEN SeqFile_reset(sfile) ELSE sfile
                 /\ lastRead' = [done |-> TRUE, len |-> out_len, res |-> "InvalidInput",
                                 n |-> 0]
                 /\ UNCHANGED <<sfCall, sfFetched>>
            ELSE /\ sfCall' = [pc |-> "loop", out_len |-> out_len, total |-> 0]
                 /\ UNCHANGED <<sfile, sfFetched, lastRead>>
  /\ UNCHANGED <<sfItems, sfIndex, sfOut>>
  /\ SeqPartOnly

\* read returns Ok(total_written)
ReadDone ==
  /\ sfCall' = [pc |-> "idle", out_len |-> 0, total |-> 0]
  /\ lastRead' = [done |-> TRUE, len |-> sfCall.out_len, res |-> "Ok", n |-> sfCall.total]

\* one round of the filling loop of read: the loop ends when the output is
\* full; bytes left in buf are copied out; with buf empty and is_eof set the
\* loop ends; otherwise the next item is fetched, with start() when
\* last_file_offset is 0 and the file has not started and with next()
\* otherwise, and shown into buf; no item sets is_eof and ends the loop
SeqFile_read_loop ==
  /\ sfCall.pc = "loop"
  /\ LET available == Len(sfile.buf) - sfile.buf_read_pos
         to_copy == IF available < sfCall.out_len - sfCall.total
                      THEN available ELSE sfCall.out_len - sfCall.total
         cleared == [sfile EXCEPT !.buf = <<>>, !.buf_read_pos = 0]
         from == IF cleared.last_file_offset = 0 /\ ~has_started(cleared)
                   THEN 0 ELSE sfIndex
     IN IF sfCall.total >= sfCall.out_len
          THEN ReadDone /\ UNCHANGED <<sfIndex, sfile, sfOut, sfFetched>>
        ELSE IF available > 0
          THEN /\ sfOut' = sfOut \o SubSeq(sfile.buf, sfile.buf_read_pos + 1,
                                           sfile.buf_read_pos + to_copy)
               /\ sfile' = [sfile EXCEPT !.buf_read_pos = @ + to_copy,
                                         !.last_file_offset = @ + to_copy]
               /\ sfCall' = [sfCall EXCEPT !.total = @ + to_copy]
               /\ UNCHANGED <<sfIndex, sfFetched, lastRead>>
        ELSE IF sfile.is_eof
          THEN ReadDone /\ UNCHANGED <<sfIndex, sfile, sfOut, sfFetched>>
        ELSE IF from < Len(sfItems)
          THEN /\ sfIndex' = from + 1
               /\ sfile' = [cleared EXCEPT !.buf = Show(sfItems, from + 1)]
               /\ sfFetched' = [sfFetched EXCEPT ![from + 1] = IF @ < 2 THEN @ + 1 ELSE @]
               /\ UNCHANGED <<sfCall, sfOut, lastRead>>
          ELSE /\ sfIndex' = from
               /\ sfile' = [cleared EXCEPT !.is_eof = TRUE]
               /\ ReadDone
               /\ UNCHANGED <<sfOut, sfFetched>>
  /\ UNCHANGED sfItems
  /\ SeqPartOnly

NextSeq ==
  \/ \E items \in Iterators : SeqFile_new(items)
  \/ \E n \in OutLens : SeqFile_read(n)
  \/ SeqFile_read_loop

\* C39: the reads of a file, the first at offset 0 and each later one at
\* the number of bytes returned so far, deliver the show() outputs of the
\* items once each and in order, whatever the lengths of the buffers: what
\* was delivered is the beginning of the output of one large read, no item
\* is fetched twice, no read is refused, and a read into a buffer with room
\* returns fewer bytes than asked, or none, only once the items are
\* exhausted.
C39_StreamIndependentOfBufferLengths ==
  /\ IsPrefix(sfOut, WholeStream(sfItems))
  /\ \A k \in ItemIds : sfFetched[k] <= 1
  /\ lastRead.done =>
       /\ lastRead.res = "Ok"
       /\ (sfCall.pc = "idle" /\ lastRead.n < lastRead.len)
            => sfOut = WholeStream(sfItems)

\* the part of C39 that holds: the same for every iterator whose first item
\* has a show() output that is not empty
StreamOfNonEmptyFirstItem ==
  (sfItems = <<>> \/ sfItems[1] > 0) => C39_StreamIndependentOfBufferLengths



WdPartOnly ==
  UNCHANGED <<probeVars, retVars, mapVars, traceVars, kperfVars, bpfVars, pipeVars,
              ioctlVars, lockVars, progVars, pageVars, sysVars, outVars, nestVars,
              fbVars, rdVars, oopsVars, seqVars>>

(* ============ watch descriptors of an inotify instance ================= *)
\* i32 at the width WdBits: the values and the wrapping addition of
\* AtomicI32::fetch_add
I32_MAX == 2^(WdBits - 1) - 1
I32_MIN == 0 - 2^(WdBits - 1)
WrappingAdd(x, y) == ((x + y - I32_MIN) % 2^WdBits) + I32_MIN

InitWd ==
  /\ next_wd = 1
  /\ wd_to_location = {}
  /\ watchLog = <<>>

\* next_wd.fetch_add(1, Relaxed): the old value is returned and the counter
\* takes the wrapped sum
FetchAdd(ctr) == [old |-> ctr, new |-> WrappingAdd(ctr, 1)]

\* InotifyInstance::add_watch: a path that does not resolve is NotFound;
\* otherwise the counter is fetched and incremented, the value i32::MAX is
\* StorageFull, and any other value is recorded and returned
add_watch(resolves) ==
  /\ Len(watchLog) < MaxWatchCalls
  /\ IF ~resolves
       THEN /\ watchLog' = Append(watchLog, [res |-> "NotFound", wd |-> 0])
            /\ UNCHANGED <<next_wd, wd_to_location>>
       ELSE LET f == FetchAdd(next_wd)
                wd == f.old
            IN /\ next_wd' = f.new
               /\ IF wd = I32_MAX
                    THEN /\ watchLog' = Append(watchLog, [res |-> "StorageFull", wd |-> 0])
                         /\ UNCHANGED wd_to_location
                    ELSE /\ wd_to_location' = wd_to_location \cup {wd}
                         /\ watchLog' = Append(watchLog, [res |-> "Ok", wd |-> wd])
  /\ WdPartOnly

\* InotifyInstance::remove_watch of a descriptor the instance holds
remove_watch(wd) ==
  /\ wd \in wd_to_location
  /\ wd_to_location' = wd_to_location \ {wd}
  /\ UNCHANGED <<next_wd, watchLog>>
  /\ WdPartOnly

NextWd ==
  \/ \E r \in BOOLEAN : add_watch(r)
  \/ \E wd \in I32_MIN..I32_MAX : remove_watch(wd)

\* C40: add_watch returns a descriptor that is strictly positive and was
\* never returned before, and once a call has failed with StorageFull no
\* later call returns a descriptor: the counter does not wrap.
C40_DescriptorsPositiveAndFresh ==
  \A i \in 1..Len(watchLog) :
    watchLog[i].res = "Ok" =>
      /\ watchLog[i].wd > 0
      /\ \A j \in 1..(i - 1) :
           /\ watchLog[j].res = "Ok" => watchLog[j].wd # watchLog[i].wd
           /\ watchLog[j].res # "StorageFull"

\* the part of C40 that holds: up to the first StorageFull the descriptors
\* are 1, 2, 3, ... in the order of the calls that succeed, and the call
\* that fetches i32::MAX fails with StorageFull
DescriptorsCountUpUntilFull ==
  \A i \in 1..Len(watchLog) :
    (\A j \in 1..(i - 1) : watchLog[j].res # "StorageFull") =>
      LET k == Cardinality({j \in 1..i : watchLog[j].res # "NotFound"})
      IN /\ watchLog[i].res = "Ok" => (watchLog[i].wd = k /\ k < I32_MAX)
         /\ watchLog[i].res = "StorageFull" => k = I32_MAX


Init == InitProbe /\ InitRet /\ InitMap /\ InitTrace /\ InitKperf /\ InitBpf /\ InitPipe /\ InitIoctl
        /\ InitLock /\ InitProg /\ InitPage /\ InitSys /\ InitOut /\ InitNest
        /\ InitFb /\ InitRd /\ InitOops /\ InitSeq /\ InitWd

Next ==
  \/ \E a \in ProbeAddrs : register_kprobe(a)
  \/ \E i \in ProbeIds : unregister_kprobe(i)
  \/ \E c \in Procs, a \in ProbeAddrs : register_uprobe(c, TracedPid, a)
  \/ \E i \in ProbeIds : unregister_uprobe(i)
  \/ \E a \in Addrs : kernel_ebreak_handler(a)
  \/ \E c \in Procs, a \in Addrs : user_ebreak_handler(c, a)


Spec == Init /\ [][Next]_allVars

SpecRet == Init /\ [][NextRet]_allVars

SpecMap == Init /\ [][NextMap]_allVars

SpecTrace == Init /\ [][NextTrace]_allVars

SpecKperf == Init /\ [][NextKperf]_allVars

SpecBpf == Init /\ [][NextBpf]_allVars

SpecPipe == Init /\ [][NextPipe]_allVars

SpecLock == Init /\ [][NextLock]_allVars

SpecProg == Init /\ [][NextProg]_allVars

SpecPage == Init /\ [][NextPage]_allVars

SpecSys == Init /\ [][NextSys]_allVars

SpecOut == Init /\ [][NextOut]_allVars

SpecNest == Init /\ [][NextNest]_allVars

SpecFb == Init /\ [][NextFb]_allVars

SpecRd == Init /\ [][NextRd]_allVars

SpecOops == Init /\ [][NextOops]_allVars

SpecSeq == Init /\ [][NextSeq]_allVars

SpecWd == Init /\ [][NextWd]_allVars

====
